---- MODULE Spec2Model ----
(***************************************************************************)
(* Firmware runtime of the SawThat e-paper frame: the boot/session         *)
(* orchestrator of firmware/src/bin/main.rs, its RTC-retained SleepState,  *)
(* the SD-card catalog and orientation files, and the pure helpers it      *)
(* uses (hash_data, shuffle_items).                                        *)
(***************************************************************************)
EXTENDS Integers, Sequences, FiniteSets, TLC

(***************************************************************************)
(* Program constants                                                       *)
(***************************************************************************)
\* Orientation as u8 (widget.rs): Horizontal = 0, Vertical = 1
Horizontal == 0
Vertical == 1

\* BUTTON_STATE values (main.rs)
BUTTON_CANCELLED == 0
BUTTON_POLLING == 1
BUTTON_NEXT == 2
BUTTON_FLIP == 3

HOLD_THRESHOLD_MS == 500
BUTTON_POLL_MS == 50

\* 0xCAFE_F00D as two 16-bit words (high, low)
SLEEP_STATE_MAGIC == <<51966, 61453>>
NO_MAGIC == <<0, 0>>

(***************************************************************************)
(* Bounds and input sets                                                   *)
(***************************************************************************)
\* Largest number of consecutive 50 ms polls that see the button low at boot
MaxPolls == 11

\* Item identifiers are byte strings
IdA == <<97>>
IdB == <<98>>
IdC == <<99>>
IdAB == <<97, 98>>
IdBA == <<98, 65>>

\* Catalogs the edge service may serve (and an SD card may hold)
Catalogs ==
    { <<IdAB>>, <<IdBA>>, <<IdA, IdB, IdC>> }

\* What one GET /concerts may produce: a body holding a catalog or an empty
\* array (a one-element sequence), or a failed request (the empty sequence)
ServerResponses == { <<c>> : c \in Catalogs } \cup { << <<>> >>, <<>> }

\* 64-bit seeds as four 16-bit words, most significant first
Seeds == { <<0, 0, 0, 0>>, <<0, 0, 0, 5>> }

(***************************************************************************)
(* hash_data: djb2 over all identifiers with a 0 separator, in u32         *)
(* arithmetic.  A u32 is kept as <<high 16 bits, low 16 bits>>.            *)
(***************************************************************************)
\* hash.wrapping_mul(33).wrapping_add(b)
Djb2Step(h, b) ==
    LET lo == h[2] * 33 + b
        hi == h[1] * 33 + (lo \div 65536)
    IN  <<hi % 65536, lo % 65536>>

RECURSIVE HashBytes(_, _)
HashBytes(h, bytes) ==
    IF bytes = <<>> THEN h
    ELSE HashBytes(Djb2Step(h, Head(bytes)), Tail(bytes))

RECURSIVE HashItems(_, _)
HashItems(h, list) ==
    IF list = <<>> THEN h
    ELSE HashItems(Djb2Step(HashBytes(h, Head(list)), 0), Tail(list))

hash_data(list) == HashItems(<<0, 5381>>, list)

(***************************************************************************)
(* shuffle_items: Fisher-Yates driven by xorshift64; a u64 is a function   *)
(* from bit position (0 = least significant) to {0,1}.                     *)
(***************************************************************************)
U64(ws) == [i \in 0..63 |-> (ws[4 - (i \div 16)] \div (2 ^ (i % 16))) % 2]

Shl(s, n) == [i \in 0..63 |-> IF i >= n THEN s[i - n] ELSE 0]
Shr(s, n) == [i \in 0..63 |-> IF i + n <= 63 THEN s[i + n] ELSE 0]
Xor(a, b) == [i \in 0..63 |-> (a[i] + b[i]) % 2]

\* state ^= state << 13; state ^= state >> 7; state ^= state << 17
XorShift(s) ==
    LET a == Xor(s, Shl(s, 13))
        b == Xor(a, Shr(a, 7))
    IN  Xor(b, Shl(b, 17))

\* (state as usize) % m on a 32-bit target: bits k..31 read as a number, mod m
RECURSIVE UsizeMod(_, _, _)
UsizeMod(s, k, m) ==
    IF k > 31 THEN 0 ELSE (2 * UsizeMod(s, k + 1, m) + s[k]) % m

\* items.swap(i, j) writing list[j] to position i only
Swap_Overwrites(list, i, j) ==
    [k \in 1..Len(list) |-> IF k = i THEN list[j] ELSE list[k]]

\* items.swap(i, j)
Swap(list, i, j) ==
    [k \in 1..Len(list) |-> IF k = i THEN list[j] ELSE IF k = j THEN list[i] ELSE list[k]]

\* for i in (1..len).rev(): i is the 0-based position
RECURSIVE ShuffleFrom(_, _, _)
ShuffleFrom(list, state, i) ==
    IF i < 1 THEN list
    ELSE LET st == XorShift(state)
             j  == UsizeMod(st, 0, i + 1)
         IN  ShuffleFrom(Swap(list, i + 1, j + 1), st, i - 1)

\* 0x853c49e6748fea9b
DEFAULT_SEED == <<34108, 18918, 29839, 60059>>

shuffle_items(list, seed) ==
    IF Len(list) <= 1 THEN list
    ELSE ShuffleFrom(list,
                     U64(IF seed = <<0, 0, 0, 0>> THEN DEFAULT_SEED ELSE seed),
                     Len(list) - 1)

(***************************************************************************)
(* SleepState: the record kept in RTC fast memory across deep sleep        *)
(***************************************************************************)
\* SleepState::new()
SleepStateNew ==
    [ magic |-> NO_MAGIC, index |-> 0, total_items |-> 0,
      shuffle_seed |-> <<0, 0, 0, 0>>, orientation |-> 0, next_slot |-> 0,
      slot_items |-> <<0, 0>>, data_hash |-> <<0, 0>> ]

is_valid(state) == state.magic = SLEEP_STATE_MAGIC

\* Orientation::from_u8
from_u8(value) == IF value = 1 THEN Vertical ELSE Horizontal

get_orientation(state) == from_u8(state.orientation)

toggle(o) == IF o = Horizontal THEN Vertical ELSE Horizontal

matches_data(state, list) ==
    Len(list) = state.total_items /\ state.data_hash = hash_data(list)

save_DropsIndex(idx, total, seed, orient, slot, slots, list) ==
    [ magic |-> SLEEP_STATE_MAGIC, index |-> 0, total_items |-> total,
      shuffle_seed |-> seed, orientation |-> orient, next_slot |-> slot,
      slot_items |-> slots, data_hash |-> hash_data(list) ]

\* SleepState::save
save(idx, total, seed, orient, slot, slots, list) ==
    [ magic |-> SLEEP_STATE_MAGIC, index |-> idx, total_items |-> total,
      shuffle_seed |-> seed, orientation |-> orient, next_slot |-> slot,
      slot_items |-> slots, data_hash |-> hash_data(list) ]

(***************************************************************************)
(* SD card files and the edge service, as the orchestrator sees them.      *)
(* An Option is a sequence: None is <<>>, Some(x) is <<x>>.                *)
(***************************************************************************)
None == <<>>
Some(x) == <<x>>
NoFile == None

\* SdCache::load_widget_data: an absent file or an empty list is no catalog
load_widget_data(file) ==
    IF file = NoFile THEN None
    ELSE IF Len(file[1]) = 0 THEN None ELSE Some(file[1])

\* load_orientation that finds the file and takes the default
load_orientation_IgnoresByte(file) == IF file = NoFile THEN None ELSE Some(Horizontal)

\* SdCache::load_orientation
load_orientation(file) == IF file = NoFile THEN None ELSE Some(from_u8(file[1]))

\* display::fetch_widget_data: Err on a failed request and on an empty list
fetch_widget_data(resp) ==
    IF resp = None THEN None
    ELSE IF Len(resp[1]) = 0 THEN None ELSE Some(resp[1])

(***************************************************************************)
(* State                                                                   *)
(***************************************************************************)
VARIABLES
    pc,              \* position of main(): off, sleep, netfetch, resume, loop,
                     \* overlap, busy, finish, save; or where it stays for
                     \* good: busy_wait, busy_poll, wifi_wait, panicked
    rtc,             \* SLEEP_STATE
    sd_widget,       \* WIDGET.JSN: NoFile or the stored list
    sd_orient,       \* ORIENT.DAT: NoFile or the stored byte
    button_state,    \* BUTTON_STATE
    monitor,         \* button_monitor_task: dead, poll (waiting for a press),
                     \* hold (inside the hold loop)
    resuming,        \* locals of main()
    orientation,
    has_cached_data,
    wifi_connected,
    items,
    shuffle_seed,
    data_matches,
    can_partial,
    index,
    next_slot,
    slot_items,
    use_partial,
    total_items,
    first,           \* history: no display cycle has run yet in this wake
    cycle,           \* history: what the display cycle just run did
    last,            \* history: how the pass before this one ended, and the
                     \* panel calls it made
    mon_hist,        \* history: what the monitor spawned in this pass reported,
                     \* with the count it stored to LED_GREEN_FLASH
    panel,           \* history: layout and item indices the panel was last told to show
    hist,            \* history: facts about this wake and the previous one
    img_dir,         \* the image cache: the file names in each orientation
                     \* directory of the SD card
    img_bad,         \* the image cache: the files of each directory whose
                     \* contents cannot be shown (no bytes, or no PNG)
    call,            \* the call last made of a driver or cache function, with
                     \* its arguments and result
    led_red_blink,   \* LED_RED_BLINK
    led_red_interval,\* LED_RED_INTERVAL
    led_green_flash, \* LED_GREEN_FLASH
    led_pulses,      \* led_task: pulses of the green LED still to make in
                     \* its for loop
    run              \* main() followed from await to await: the await it is
                     \* suspended at, with the locals that decide the next

vars == << pc, rtc, sd_widget, sd_orient, button_state, monitor, resuming, orientation, has_cached_data, wifi_connected,
           items, shuffle_seed, data_matches, can_partial, index, next_slot,
           slot_items, use_partial, total_items,
           first, cycle, last, mon_hist, panel, hist, img_dir, img_bad, call,
           led_red_blink, led_red_interval, led_green_flash, led_pulses, run >>

\* The orchestrator's part of the state
device == << pc, rtc, sd_widget, sd_orient, button_state, monitor, resuming,
             orientation, has_cached_data, wifi_connected, items, shuffle_seed,
             data_matches, can_partial, index, next_slot, slot_items,
             use_partial, total_items, first, cycle, last, mon_hist, panel,
             hist >>

\* The LED statics, the LED task and main() seen from await to await
leds == << led_red_blink, led_red_interval, led_green_flash, led_pulses, run >>

\* The driver and cache functions and the LEDs are followed on their own: the
\* orchestrator's steps draw what the functions return as inputs
others == << img_dir, img_bad, call, leds >>

locals == << resuming, orientation, has_cached_data, wifi_connected, items,
             shuffle_seed, data_matches, can_partial, index, next_slot,
             slot_items, use_partial, total_items >>

NoCycle == [ kind |-> "none" ]

NoLast == [ kind |-> "none", outcome |-> BUTTON_CANCELLED ]

\* History of the current wake: prev_changed describes the wake before it,
\* early_tap, boot_flash (the count the boot stored to LED_GREEN_FLASH) and
\* boot_low (the button was read low over polls spanning the hold threshold)
\* are kept until the first display attempt; saved is the list the previous
\* wake hashed into the record, kept until the resume decision, and
\* saved_catalog that list as it was before the shuffle; catalog is the list
\* of this wake before the shuffle; generated is
\* the seed drawn from the random generator on this wake, if one was
NewHist(prevChanged) ==
    [ seed_fresh |-> FALSE, started_any |-> FALSE, cached |-> None,
      prev_changed |-> prevChanged, early_tap |-> FALSE, boot_flash |-> 0,
      boot_low |-> FALSE, saved |-> None, generated |-> None,
      catalog |-> None, saved_catalog |-> None ]

\* Positions at which the steps of the other tasks are taken.  The tasks run
\* whenever main() awaits; they share only BUTTON_STATE and LED_GREEN_FLASH
\* with it, which main() writes at the spawn and at the end of a pass, so the
\* steps they take during the overlapped work and the busy poll are taken at
\* the yield that follows, and those after the pass while Wi-Fi is shut down.
TaskPoints == { "finish", "save" }

\* Positions main() never leaves: a blocking or polling wait for the busy
\* line, the Wi-Fi association and address loops, the panic handler
StuckPoints == { "busy_wait", "busy_poll", "wifi_wait", "panicked" }

\* Power never applied: the statics, the SD card files and the history
DeviceOff ==
    /\ pc = "off"
    /\ rtc = SleepStateNew
    /\ sd_widget \in { NoFile, Some(<<>>) }
    /\ sd_orient = NoFile
    /\ button_state = BUTTON_CANCELLED
    /\ monitor = "dead"
    /\ resuming = FALSE
    /\ orientation = Horizontal
    /\ has_cached_data = FALSE
    /\ wifi_connected = FALSE
    /\ items = <<>>
    /\ shuffle_seed = <<0, 0, 0, 0>>
    /\ data_matches = FALSE
    /\ can_partial = FALSE
    /\ index = 0
    /\ next_slot = 0
    /\ slot_items = <<0, 0>>
    /\ use_partial = FALSE
    /\ total_items = 0
    /\ first = FALSE
    /\ cycle = NoCycle
    /\ last = NoLast
    /\ mon_hist = None
    /\ panel = <<"blank", 0, 0>>
    /\ hist = NewHist(FALSE)

\* main() not running, as run holds it
NoRun ==
    [ at |-> "off", site |-> "none", kind |-> "none", wifi |-> FALSE,
      cached |-> FALSE, button |-> BUTTON_CANCELLED, yielded |-> FALSE,
           conns |-> 0 ]

\* The LED statics as initialised: no flash requested, solid red, 500 ms
LedsOff ==
    /\ led_red_blink = FALSE
    /\ led_red_interval = 500
    /\ led_green_flash = 0
    /\ led_pulses = 0
    /\ run = NoRun

Init ==
    /\ DeviceOff
    /\ img_dir = [ o \in { Horizontal, Vertical } |-> {} ]
    /\ img_bad = [ o \in { Horizontal, Vertical } |-> {} ]
    /\ call = None
    /\ LedsOff

\* main() stops running (deep sleep, or a wait it never leaves): its locals die
LocalsDie ==
    /\ resuming' = FALSE
    /\ orientation' = Horizontal
    /\ has_cached_data' = FALSE
    /\ wifi_connected' = FALSE
    /\ items' = <<>>
    /\ shuffle_seed' = <<0, 0, 0, 0>>
    /\ data_matches' = FALSE
    /\ can_partial' = FALSE
    /\ index' = 0
    /\ next_slot' = 0
    /\ slot_items' = <<0, 0>>
    /\ use_partial' = FALSE
    /\ total_items' = 0

\* What the wake leaves for the history of the next one
EndHist(widget_file) == NewHist(hist.cached # None /\ widget_file # hist.cached)

\* main() reaches a point it never leaves without having saved the record;
\* the other tasks are not followed past it
Stuck(where, widget_file) ==
    /\ pc' = where
    /\ LocalsDie
    /\ first' = FALSE
    /\ cycle' = NoCycle
    /\ last' = NoLast
    /\ mon_hist' = None
    /\ hist' = EndHist(widget_file)
    /\ monitor' = "dead"
    /\ button_state' = BUTTON_CANCELLED

(***************************************************************************)
(* Boot: wake classification, orientation persistence, catalog source      *)
(***************************************************************************)
\* The boot-time hold loop: one 50 ms wait per poll that reads the button low,
\* leaving the loop once the accumulated time reaches the threshold
RECURSIVE BootHoldTime(_, _)
BootHoldTime(hold_time_ms, lowPolls) ==
    IF lowPolls = 0 THEN hold_time_ms
    ELSE LET h == hold_time_ms + BUTTON_POLL_MS
         IN  IF h >= HOLD_THRESHOLD_MS THEN h ELSE BootHoldTime(h, lowPolls - 1)

BootHeld_Strict(hold_time_ms) == hold_time_ms > HOLD_THRESHOLD_MS

\* The boot-time classification of the press: hold when the accumulated time
\* has reached the threshold, else tap
BootHeld(hold_time_ms) == hold_time_ms >= HOLD_THRESHOLD_MS

ResetAfterBoot_KeepsTap(bstate) ==
    IF bstate = BUTTON_FLIP THEN BUTTON_CANCELLED ELSE bstate

\* BUTTON_STATE after the orientation persistence: Flip and Next are both
\* reset to CANCELLED before the display loop
ResetAfterBoot(bstate) ==
    IF bstate = BUTTON_FLIP THEN BUTTON_CANCELLED
    ELSE IF bstate = BUTTON_NEXT THEN BUTTON_CANCELLED
    ELSE bstate

\* What a panel call that waits for the busy line can meet: it returns Ok, it
\* returns an SPI error, or the busy line never releases
PanelResults == { "ok", "spi_error", "busy_stuck" }

\* main() from entry up to the choice of the catalog source.  rec is the RTC
\* record found at entry, button_wake the wake cause, lowPolls the button
\* input of the boot-time check, init what Epd7in3e::new meets, tap whether
\* the button is tapped and released later during boot, when nothing reads it.
Boot(rec, button_wake, lowPolls, init, tap) ==
    LET valid   == is_valid(rec)
        orient0 == IF valid THEN get_orientation(rec) ELSE Horizontal
        held    == button_wake /\ BootHeld(BootHoldTime(0, lowPolls))
        bstate  == IF ~button_wake THEN BUTTON_CANCELLED
                   ELSE IF held THEN BUTTON_FLIP ELSE BUTTON_NEXT
        orient1 == IF held THEN toggle(orient0) ELSE orient0
        cached  == load_widget_data(sd_widget)
        sdo     == load_orientation(sd_orient)
        flash   == IF ~button_wake THEN 0 ELSE IF held THEN 3 ELSE 1
    IN  /\ rtc' = rec
        /\ sd_orient' = IF bstate = BUTTON_FLIP THEN Some(orient1) ELSE sd_orient
        /\ UNCHANGED << sd_widget, panel >>
        /\ IF init = "ok"
             THEN /\ resuming' = valid
                  /\ has_cached_data' = (cached # None)
                  /\ orientation' =
                        IF bstate \in { BUTTON_FLIP, BUTTON_NEXT } THEN orient1
                        ELSE IF sdo # None THEN sdo[1] ELSE orient1
                  /\ button_state' = ResetAfterBoot(bstate)
                  /\ monitor' = "dead"
                  /\ wifi_connected' = FALSE
                  /\ items' = IF cached # None THEN cached[1] ELSE <<>>
                  /\ pc' = IF cached # None THEN "resume" ELSE "netfetch"
                  /\ hist' = [ NewHist(hist.prev_changed) EXCEPT
                                 !.cached = cached, !.early_tap = tap,
                                 !.boot_flash = flash,
                                 !.saved = IF valid THEN hist.saved ELSE None,
                                 !.saved_catalog = IF valid THEN hist.saved_catalog
                                                   ELSE None,
                                 !.boot_low = button_wake /\
                                    lowPolls * BUTTON_POLL_MS >= HOLD_THRESHOLD_MS ]
                  /\ mon_hist' = None
                  /\ last' = NoLast
                  /\ UNCHANGED << shuffle_seed, data_matches, can_partial, index,
                                  next_slot, slot_items, use_partial, total_items,
                                  first, cycle >>
             ELSE Stuck(IF init = "spi_error" THEN "panicked" ELSE "busy_wait",
                        sd_widget)

\* Power applied: RTC fast memory holds SleepState::new()
PowerOn ==
    /\ UNCHANGED others
    /\ pc \in { "off", "sleep" } \cup StuckPoints
    /\ \E init \in PanelResults : Boot(SleepStateNew, FALSE, 0, init, FALSE)

\* Deep sleep ended by the timer
TimerWake ==
    /\ UNCHANGED others
    /\ pc = "sleep"
    /\ \E init \in PanelResults, tap \in BOOLEAN : Boot(rtc, FALSE, 0, init, tap)

\* Deep sleep ended by the button (Ext0)
ButtonWake ==
    /\ UNCHANGED others
    /\ pc = "sleep"
    /\ \E lowPolls \in 0..MaxPolls, init \in PanelResults :
          Boot(rtc, TRUE, lowPolls, init, FALSE)

\* ensure_wifi!: nothing to do when connected; otherwise wifi_connect and
\* wait_for_ip loop until the network is there.  assoc tells whether it ever is.
EnsureWifi(connected, assoc) == connected \/ assoc

\* No cached catalog: ensure_wifi!, then the catalog is fetched, with a retry
\* after 30 s on every failure.  The step is the end of ensure_wifi! and one
\* request; while Wi-Fi does not come up main() stays where it is.
InitialFetch ==
    /\ UNCHANGED others
    /\ pc = "netfetch"
    /\ \E resp \in ServerResponses :
          LET result == fetch_widget_data(resp)
          IN  /\ wifi_connected' = EnsureWifi(wifi_connected, TRUE)
              /\ IF result = None
                   THEN UNCHANGED << items, sd_widget, pc >>
                   ELSE /\ items' = result[1]
                        /\ sd_widget' = Some(result[1])
                        /\ pc' = "resume"
              /\ UNCHANGED << rtc, sd_orient, button_state, monitor, resuming,
                              orientation, has_cached_data, shuffle_seed,
                              data_matches, can_partial, index, next_slot,
                              slot_items, use_partial, total_items,
                              first, cycle, last, mon_hist, panel, hist >>

(***************************************************************************)
(* Resume or fresh start                                                   *)
(***************************************************************************)
\* SelectSeed taking the seed from the record on every wake
SelectSeed_AlwaysRecord(isResuming, rec, rnd) == rec.shuffle_seed

\* The seed the wake shuffles with: the record's when resuming, else rnd
SelectSeed(isResuming, rec, rnd) == IF isResuming THEN rec.shuffle_seed ELSE rnd

\* CanPartial without the test of the saved orientation
CanPartial_NoSavedOrientation(dataMatches, orient, savedOrient, savedIndex) ==
    /\ dataMatches
    /\ orient = Horizontal
    /\ savedIndex >= 2

CanPartial(dataMatches, orient, savedOrient, savedIndex) ==
    /\ dataMatches
    /\ orient = Horizontal
    /\ savedOrient = Horizontal
    /\ savedIndex >= 2

\* InitialLoopState keeping the saved slots on every resume
InitialLoopState_KeepsSlots(canPartial, dataMatches, savedIndex, savedNextSlot, savedSlotItems) ==
    IF canPartial THEN << savedIndex, savedNextSlot, savedSlotItems, TRUE >>
    ELSE IF dataMatches THEN << savedIndex, savedNextSlot, savedSlotItems, FALSE >>
    ELSE << 0, 0, <<0, 0>>, FALSE >>

\* (index, next_slot, slot_items, use_partial) the display loop starts with
InitialLoopState(canPartial, dataMatches, savedIndex, savedNextSlot, savedSlotItems) ==
    IF canPartial THEN << savedIndex, savedNextSlot, savedSlotItems, TRUE >>
    ELSE IF dataMatches THEN << savedIndex, 0, <<0, 0>>, FALSE >>
    ELSE << 0, 0, <<0, 0>>, FALSE >>

ResumeDecision ==
    /\ UNCHANGED others
    /\ pc = "resume"
    /\ \E rnd \in Seeds :
          LET seed     == SelectSeed(resuming, rtc, rnd)
              sIndex   == IF resuming THEN rtc.index ELSE 0
              sSlot    == IF resuming THEN rtc.next_slot ELSE 0
              sSlots   == IF resuming THEN rtc.slot_items ELSE <<0, 0>>
              shuffled == shuffle_items(items, seed)
              dm       == IF resuming THEN matches_data(rtc, shuffled) ELSE FALSE
              sOrient  == IF resuming THEN get_orientation(rtc) ELSE Horizontal
              cp       == CanPartial(dm, orientation, sOrient, sIndex)
              st       == InitialLoopState(cp, dm, sIndex, sSlot, sSlots)
          IN  /\ shuffle_seed' = seed
              /\ items' = shuffled
              /\ data_matches' = dm
              /\ can_partial' = cp
              /\ index' = st[1]
              /\ next_slot' = st[2]
              /\ slot_items' = st[3]
              /\ use_partial' = st[4]
              /\ total_items' = Len(shuffled)
              /\ hist' = [ hist EXCEPT !.seed_fresh = ~resuming,
                                       !.saved = None,
                                       !.catalog = Some(items),
                                       !.saved_catalog = None,
                                       !.generated = IF resuming THEN None
                                                     ELSE Some(rnd) ]
    /\ first' = TRUE
    /\ pc' = "loop"
    /\ UNCHANGED << rtc, sd_widget, sd_orient, button_state,
                    monitor, resuming, orientation, has_cached_data,
                    wifi_connected, cycle, last, mon_hist, panel >>

(***************************************************************************)
(* The display loop                                                        *)
(***************************************************************************)
\* WrapIndex with > in place of >=
WrapIndex_OffByOne(idx, total) == IF idx > total THEN 0 ELSE idx

\* Loop head: if index >= total_items { index = 0 }
WrapIndex(idx, total) == IF idx >= total THEN 0 ELSE idx

\* PartialAdvance that leaves next_slot where it was
PartialAdvance_NoSlotFlip(slots, slot, idx, item_idx) ==
    << [slots EXCEPT ![slot + 1] = item_idx], slot, idx + 1 >>

\* Slot tracking after a started partial refresh of item item_idx:
\* (slot_items, next_slot, index)
PartialAdvance(slots, slot, idx, item_idx) ==
    << [slots EXCEPT ![slot + 1] = item_idx], (slot + 1) % 2, idx + 1 >>

\* FullAdvance that records the second slot without wrapping it
FullAdvance_NoWrap(orient, slots, slot, idx, usePartial, total) ==
    IF orient = Horizontal
      THEN << << idx % total, idx + 1 >>, 0, idx + 2, TRUE >>
      ELSE << slots, slot, idx + 1, usePartial >>

\* Slot tracking after a started full refresh:
\* (slot_items, next_slot, index, use_partial)
FullAdvance(orient, slots, slot, idx, usePartial, total) ==
    IF orient = Horizontal
      THEN << << idx % total, (idx + 1) % total >>, 0, idx + 2, TRUE >>
      ELSE << slots, slot, idx + 1, usePartial >>

\* How one image needed by a display attempt is obtained: has_image reports a
\* hit and the file is read and rendered; a hit whose file cannot be read,
\* yields no bytes or does not render; a miss fetched from the server and
\* rendered; a miss whose fetch fails or whose bytes do not render
ImageResults == { "hit", "hit_unreadable", "fetched", "fetch_failed" }

\* cache_hit of one image
CacheHit(r) == r \in { "hit", "hit_unreadable" }

NeedsNetwork_Always(rs) == TRUE

\* The attempt calls ensure_wifi! before the refresh starts: some image missed
NeedsNetwork(rs) == \E i \in 1..Len(rs) : ~CacheHit(rs[i])

\* fetch_result is Ok: every image was obtained and rendered
FetchOk(rs) == \A i \in 1..Len(rs) : rs[i] \in { "hit", "fetched" }

\* items_per_screen
ItemsPerScreen(orient) == IF orient = Horizontal THEN 2 ELSE 1

CycleRecord(kind, started, sel, rs, wifi) ==
    [ kind |-> kind, started |-> started, first |-> first, sel |-> sel,
      orient |-> orientation, pre_index |-> index, pre_next_slot |-> next_slot,
      pre_slot_items |-> slot_items, pre_use_partial |-> use_partial,
      pre_panel |-> panel,
      fetch |-> Some([ all_hit |-> \A i \in 1..Len(rs) : CacheHit(rs[i]),
                       wifi_before |-> wifi_connected, wifi_at_start |-> wifi ]),
      prefetch |-> None, refresh |-> None,
      calls |-> <<"wake_up">> \o (IF started THEN <<"start">>
                                  ELSE IF FetchOk(rs) THEN <<"start_err">>
                                  ELSE <<>>),
      idle |-> FALSE ]

AfterAttempt_SkipsBusyWait(started) == "finish"

\* Where main() goes after the attempt: into the work overlapped with the
\* refresh and the poll of the busy line when display_started, else straight
\* to the end of the pass
AfterAttempt(started) == IF started THEN "overlap" ELSE "finish"

\* The attempt never returns: wake_up or a start call waits for the busy line
\* for ever or panics, or Wi-Fi never comes up for a missed image
StuckInCycle(where) ==
    /\ Stuck(where, sd_widget)
    /\ UNCHANGED << rtc, sd_widget, sd_orient, panel >>

\* The end of a display attempt: slot tracking when the refresh was started,
\* then the monitor task is spawned
AttemptDone(kind, idx0, rs, wifi, started) ==
    LET item_idx == idx0 % total_items
        padv     == PartialAdvance(slot_items, next_slot, idx0, item_idx)
        fadv     == FullAdvance(orientation, slot_items, next_slot, idx0,
                                use_partial, total_items)
    IN  /\ cycle' = CycleRecord(kind, started, idx0, rs, wifi)
        /\ wifi_connected' = wifi
        /\ IF started
             THEN /\ slot_items' = IF kind = "partial" THEN padv[1] ELSE fadv[1]
                  /\ next_slot' = IF kind = "partial" THEN padv[2] ELSE fadv[2]
                  /\ index' = IF kind = "partial" THEN padv[3] ELSE fadv[3]
                  /\ use_partial' = IF kind = "partial" THEN use_partial ELSE fadv[4]
                  /\ button_state' = BUTTON_POLLING
                  /\ monitor' = "poll"
                  /\ mon_hist' = None
                  /\ panel' =
                       IF kind = "partial"
                         THEN [ panel EXCEPT
                                  ![1] = IF panel[1] = "H" THEN "H" ELSE "mixed",
                                  ![next_slot + 2] = item_idx ]
                       ELSE IF orientation = Horizontal
                         THEN << "H", idx0 % total_items, (idx0 + 1) % total_items >>
                         ELSE << "V", idx0 % total_items, 0 >>
                  /\ hist' = [ hist EXCEPT !.started_any = TRUE,
                                           !.early_tap = FALSE,
                                           !.boot_flash = 0,
                                           !.boot_low = FALSE ]
                  /\ pc' = AfterAttempt(started)
             ELSE /\ index' = idx0
                  /\ hist' = [ hist EXCEPT !.early_tap = FALSE, !.boot_flash = 0,
                                           !.boot_low = FALSE ]
                  /\ pc' = AfterAttempt(started)
                  /\ UNCHANGED << slot_items, next_slot, use_partial, button_state,
                                  monitor, mon_hist, panel >>
        /\ UNCHANGED << rtc, sd_widget, sd_orient, resuming,
                        orientation, has_cached_data, items, shuffle_seed,
                        data_matches, can_partial, total_items, first, last >>

\* The images are there (or not): start the refresh when fetch_result is Ok
StartRefresh(kind, idx0, rs, wifi) ==
    IF FetchOk(rs)
      THEN \E st \in PanelResults :
              IF st = "busy_stuck" THEN StuckInCycle("busy_wait")
              ELSE AttemptDone(kind, idx0, rs, wifi, st = "ok")
      ELSE AttemptDone(kind, idx0, rs, wifi, FALSE)

\* One display attempt over n images: wake the panel, get each image from the
\* cache or (after ensure_wifi!) from the server, render, start the refresh
Attempt(kind, n) ==
    LET idx0 == WrapIndex(index, total_items)
    IN  \E wake \in PanelResults :
          IF wake # "ok"
            THEN StuckInCycle(IF wake = "spi_error" THEN "panicked" ELSE "busy_wait")
            ELSE \E rs \in [ 1..n -> ImageResults ] :
                    IF NeedsNetwork(rs) /\ ~wifi_connected
                      THEN \E assoc \in BOOLEAN :
                              IF EnsureWifi(wifi_connected, assoc)
                                THEN StartRefresh(kind, idx0, rs, TRUE)
                                ELSE StuckInCycle("wifi_wait")
                      ELSE StartRefresh(kind, idx0, rs, wifi_connected)

\* One pass of the partial-refresh branch, up to the spawn of the monitor
PartialCycle ==
    /\ UNCHANGED others
    /\ pc = "loop"
    /\ use_partial /\ orientation = Horizontal
    /\ Attempt("partial", 1)

\* One pass of the full-refresh branch, up to the spawn of the monitor
FullCycle ==
    /\ UNCHANGED others
    /\ pc = "loop"
    /\ ~(use_partial /\ orientation = Horizontal)
    /\ Attempt("full", ItemsPerScreen(orientation))

Prefetch_NoWrap(idx, total, has_image, fetch_ok) ==
    [ idx |-> idx, has_image |-> has_image, issued |-> ~has_image,
      fetch_ok |-> ~has_image /\ fetch_ok,
      stored |-> ~has_image /\ fetch_ok ]

\* The prefetch after the refresh started: the item at the advanced index, and
\* only when has_image says it is not cached; the request may succeed, and an
\* image it returned is written to the cache
Prefetch(idx, total, has_image, fetch_ok) ==
    [ idx |-> idx % total, has_image |-> has_image, issued |-> ~has_image,
      fetch_ok |-> ~has_image /\ fetch_ok,
      stored |-> ~has_image /\ fetch_ok ]

\* The "data changed" test applied to the freshly fetched list
CatalogDiffers(fresh, list) ==
    \/ Len(fresh) # Len(list)
    \/ \E i \in 1..Len(fresh) : fresh[i] # list[i]

\* The catalog refresh: whether a list was fetched, whether it differs from
\* the catalog the boot loaded from the SD card, and whether it was found
\* changed against the list in memory, on which store_widget_data and
\* cleanup_stale are both called
CatalogRefresh(fresh, list, cached) ==
    [ fetched |-> fresh # None,
      differs_from_cached |-> fresh # None /\ fresh # cached,
      stored |-> fresh # None /\ CatalogDiffers(fresh[1], list) ]

\* Overlapped with the refresh: Wi-Fi is brought up if it was deferred, and
\* the image of the item at the advanced index is prefetched
PrefetchNext ==
    /\ UNCHANGED others
    /\ pc = "overlap"
    /\ \E assoc \in BOOLEAN :
         IF ~EnsureWifi(wifi_connected, assoc)
           THEN /\ Stuck("wifi_wait", sd_widget)
                /\ UNCHANGED << rtc, sd_widget, sd_orient, panel >>
           ELSE /\ \E has_image \in BOOLEAN, fetch_ok \in BOOLEAN :
                     cycle' = [ cycle EXCEPT !.fetch = None, !.prefetch =
                                  Some(Prefetch(index, total_items, has_image, fetch_ok)) ]
                /\ wifi_connected' = TRUE
                /\ pc' = "refresh"
                /\ UNCHANGED << rtc, sd_widget, sd_orient, button_state, monitor,
                                resuming, orientation, has_cached_data, items,
                                shuffle_seed, data_matches, can_partial, index,
                                next_slot, slot_items, use_partial, total_items,
                                first, mon_hist, panel, hist >>
                /\ last' = NoLast

\* Overlapped with the refresh: when the boot used the cached catalog, the
\* catalog is fetched again and stored when it differs from the list in memory
RefreshCatalog ==
    /\ UNCHANGED others
    /\ pc = "refresh"
    /\ IF has_cached_data
         THEN \E resp \in ServerResponses :
                 LET fresh == fetch_widget_data(resp)
                     cr    == CatalogRefresh(fresh, items, hist.cached)
                 IN  /\ cycle' = [ cycle EXCEPT !.prefetch = None,
                                                !.refresh = Some(cr) ]
                     /\ sd_widget' = IF cr.stored THEN Some(fresh[1]) ELSE sd_widget
         ELSE /\ cycle' = [ cycle EXCEPT !.prefetch = None ]
              /\ UNCHANGED sd_widget
    /\ pc' = "busy"
    /\ UNCHANGED << rtc, sd_orient, button_state, monitor, locals, first, last,
                    mon_hist, panel, hist >>

\* The poll of the busy line every DISPLAY_BUSY_POLL_MS until the panel is
\* idle; released tells whether it ever is
AwaitIdle ==
    /\ UNCHANGED others
    /\ pc = "busy"
    /\ \E released \in BOOLEAN :
         IF ~released
           THEN /\ Stuck("busy_poll", sd_widget)
                /\ UNCHANGED << rtc, sd_widget, sd_orient, panel >>
           ELSE /\ pc' = "finish"
                /\ cycle' = [ cycle EXCEPT !.refresh = None, !.idle = TRUE ]
                /\ UNCHANGED << rtc, sd_widget, sd_orient, button_state,
                                monitor, locals, first, last,
                                mon_hist, panel, hist >>

(***************************************************************************)
(* The button monitor task                                                 *)
(***************************************************************************)
\* The button is still low at the poll taken HOLD_THRESHOLD_MS after the first
\* poll of the hold loop, polls being BUTTON_POLL_MS apart
LowAtThreshold(lows) == (lows - 1) * BUTTON_POLL_MS >= HOLD_THRESHOLD_MS

\* The hold loop of button_monitor_task, entered after a first low reading:
\* lows further readings are low, each followed by a 50 ms wait unless the
\* accumulated time has reached the threshold
RECURSIVE MonitorClassify(_, _)
MonitorClassify(hold_time, lows) ==
    IF lows = 0 THEN BUTTON_NEXT
    ELSE IF hold_time >= HOLD_THRESHOLD_MS THEN BUTTON_FLIP
    ELSE MonitorClassify(hold_time + BUTTON_POLL_MS, lows - 1)

FlashCount_AlwaysOne(outcome) == 1

\* Flash count requested with an outcome
FlashCount(outcome) == IF outcome = BUTTON_FLIP THEN 3 ELSE 1

\* The monitor reads the button low and enters its hold loop
MonitorSeesLow ==
    /\ UNCHANGED others
    /\ pc \in TaskPoints
    /\ monitor = "poll"
    /\ button_state = BUTTON_POLLING
    /\ monitor' = "hold"
    /\ UNCHANGED << pc, rtc, sd_widget, sd_orient, button_state,
                    locals, first, cycle, last, mon_hist, panel, hist >>

\* The monitor finds at its loop head that monitoring was cancelled
MonitorStops ==
    /\ UNCHANGED others
    /\ pc \in TaskPoints
    /\ monitor = "poll"
    /\ button_state # BUTTON_POLLING
    /\ monitor' = "dead"
    /\ UNCHANGED << pc, rtc, sd_widget, sd_orient, button_state,
                    locals, first, cycle, last, mon_hist, panel, hist >>

\* The hold loop ends: compare-exchange POLLING -> outcome, the store of the
\* flash count to LED_GREEN_FLASH when it succeeded, and the task returns
MonitorReport ==
    /\ UNCHANGED others
    /\ pc \in TaskPoints
    /\ monitor = "hold"
    /\ \E lows \in 0..MaxPolls :
          LET outcome == MonitorClassify(0, lows)
              cas_ok  == button_state = BUTTON_POLLING
          IN  /\ button_state' = IF cas_ok THEN outcome ELSE button_state
              /\ mon_hist' = Some([ low_at_threshold |-> LowAtThreshold(lows),
                                    outcome |-> outcome,
                                    seen |-> button_state, cas_ok |-> cas_ok,
                                    flash |-> IF cas_ok THEN FlashCount(outcome) ELSE 0 ])
    /\ monitor' = "dead"
    /\ UNCHANGED << pc, rtc, sd_widget, sd_orient, locals, first, cycle, last,
                    panel, hist >>

(***************************************************************************)
(* End of a pass, save, deep sleep                                         *)
(***************************************************************************)
FlipOutcome_KeepsPartial(orient, partial, slots, slot) ==
    << toggle(orient), partial, slots, slot >>

\* BUTTON_FLIP consumed: the new orientation, use_partial, slot_items, next_slot
FlipOutcome(orient, partial, slots, slot) ==
    << toggle(orient), FALSE, <<0, 0>>, 0 >>

\* AfterSwap going round the loop unless monitoring had been cancelled before
AfterSwap_LoopsWhilePolling(bstate) ==
    IF bstate # BUTTON_CANCELLED THEN "loop" ELSE "save"

\* Where main() goes with the value swapped out of BUTTON_STATE: round the
\* loop on Next and Flip, else out of it to the save
AfterSwap(bstate) ==
    IF bstate \in { BUTTON_NEXT, BUTTON_FLIP } THEN "loop" ELSE "save"

\* End of a pass: refresh_wait or finish_display when a refresh was started
\* (an SPI error is logged), the yield, the display put to sleep, and the
\* button outcome consumed by swapping BUTTON_STATE to CANCELLED; last keeps
\* the outcome and the panel calls of the pass in their order
EndCycle ==
    /\ UNCHANGED others
    /\ pc = "finish"
    /\ \E fin \in PanelResults, sl \in PanelResults :
         IF (cycle.started /\ fin = "busy_stuck") \/ sl = "busy_stuck"
           THEN /\ Stuck("busy_wait", sd_widget)
                /\ UNCHANGED << rtc, sd_widget, sd_orient, panel >>
         ELSE IF sl = "spi_error"
           THEN /\ Stuck("panicked", sd_widget)
                /\ UNCHANGED << rtc, sd_widget, sd_orient, panel >>
         ELSE     /\ last' = [ kind |-> IF button_state \in { BUTTON_NEXT, BUTTON_FLIP }
                                          THEN "ended" ELSE "final",
                               outcome |-> IF button_state \in { BUTTON_NEXT, BUTTON_FLIP }
                                             THEN button_state ELSE BUTTON_CANCELLED,
                               calls |-> cycle.calls
                                           \o (IF cycle.started THEN <<"finish">> ELSE <<>>)
                                           \o <<"sleep">>,
                               first |-> cycle.first ]
                  /\ button_state' = BUTTON_CANCELLED
                  /\ IF button_state = BUTTON_FLIP
                       THEN LET f == FlipOutcome(orientation, use_partial,
                                                     slot_items, next_slot)
                            IN  /\ orientation' = f[1]
                                /\ sd_orient' = Some(f[1])
                                /\ use_partial' = f[2]
                                /\ slot_items' = f[3]
                                /\ next_slot' = f[4]
                                /\ pc' = "loop"
                       ELSE /\ pc' = AfterSwap(button_state)
                            /\ UNCHANGED << orientation, sd_orient, use_partial,
                                            slot_items, next_slot >>
                  /\ first' = FALSE
                  /\ cycle' = NoCycle
                  /\ mon_hist' = None
                  /\ UNCHANGED << rtc, sd_widget, monitor, resuming,
                                  has_cached_data, wifi_connected, items,
                                  shuffle_seed, data_matches, can_partial, index,
                                  total_items, panel >>
                  /\ hist' = [ hist EXCEPT !.early_tap = FALSE ]

\* The record is written and the device enters deep sleep: main()'s locals,
\* the tasks and the atomics die
SaveAndSleep ==
    /\ UNCHANGED others
    /\ pc = "save"
    /\ rtc' = save(index, total_items, shuffle_seed, orientation, next_slot,
                   slot_items, items)
    /\ pc' = "sleep"
    /\ LocalsDie
    /\ monitor' = "dead"
    /\ last' = NoLast
    /\ mon_hist' = None
    /\ hist' = [ EndHist(sd_widget) EXCEPT !.saved = Some(items),
                                           !.saved_catalog = hist.catalog ]
    /\ UNCHANGED << sd_widget, sd_orient, button_state, first, cycle, panel >>

Next ==
    \/ PowerOn
    \/ TimerWake
    \/ ButtonWake
    \/ InitialFetch
    \/ ResumeDecision
    \/ PartialCycle
    \/ FullCycle
    \/ PrefetchNext
    \/ RefreshCatalog
    \/ AwaitIdle
    \/ MonitorSeesLow
    \/ MonitorStops
    \/ MonitorReport
    \/ EndCycle
    \/ SaveAndSleep

Spec == Init /\ [][Next]_vars

\* The executor runs main() whenever it is ready, so each step of main() in
\* and after the display loop (and the initial fetch) that stays enabled is
\* taken; power, the wake sources and the button are not under its control
LiveSpec ==
    /\ Spec
    /\ WF_vars(InitialFetch)
    /\ WF_vars(PartialCycle)
    /\ WF_vars(FullCycle)
    /\ WF_vars(PrefetchNext)
    /\ WF_vars(RefreshCatalog)
    /\ WF_vars(AwaitIdle)
    /\ WF_vars(EndCycle)
    /\ WF_vars(SaveAndSleep)

(***************************************************************************)
(* The panel driver's partial-update rectangle (epd/mod.rs)                *)
(***************************************************************************)
WIDTH == 800
HEIGHT == 480

\* Rect fields are u16
U16 == 65536

\* main(): 400 * 480 / 2
HALF_BUFFER_SIZE == 96000

\* debug: debug assertions and overflow checks on; release: both off
Builds == { "debug", "release" }

\* v & !1
ClearBit0(v) == v - (v % 2)

\* Rect::new: None when `width + 1` panics on overflow, which it does where
\* overflow checks are on; elsewhere the sum wraps
Rect_new(x, y, width, height, build) ==
    IF width + 1 >= U16 /\ build = "debug" THEN None
    ELSE Some([ x |-> ClearBit0(x), y |-> y,
                width |-> ClearBit0((width + 1) % U16), height |-> height ])

\* Rect::buffer_size
buffer_size(rect) == (rect.width * rect.height) \div 2

\* Rect::is_valid, evaluated only where overflow checks are on: a sum that
\* overflows panics, which stops the caller as a false result does
Rect_is_valid(rect) ==
    /\ rect.x < WIDTH
    /\ rect.y < HEIGHT
    /\ rect.x + rect.width <= WIDTH
    /\ rect.y + rect.height <= HEIGHT
    /\ rect.width > 0
    /\ rect.height > 0

\* set_partial_window: the inclusive window sent with PTLW, each coordinate
\* computed in u16 and sent as 10 bits
set_partial_window(rect) ==
    [ x_start |-> rect.x % 1024,
      x_end   |-> ((rect.x + rect.width + U16 - 1) % U16) % 1024,
      y_start |-> rect.y % 1024,
      y_end   |-> ((rect.y + rect.height + U16 - 1) % U16) % 1024 ]

\* partial_update_start: None when a debug assertion stops it, else what is
\* sent to the controller: the window and the pixel data
partial_update_start(rect, buffer_len, build) ==
    IF build = "debug" /\ (~Rect_is_valid(rect) \/ buffer_len # buffer_size(rect))
      THEN None
      ELSE Some([ window |-> set_partial_window(rect), data_len |-> buffer_len ])

\* Arguments the rectangle functions are applied to
RectXs == { 0, 1, 400, 401, 600, 65535 }
RectYs == { 0, 1 }
RectWidths == { 0, 1, 400, 401, 65535 }
RectHeights == { 0, 480 }

\* Rect values built field by field (the fields are public)
RectLiterals ==
    { [ x |-> 1, y |-> 0, width |-> 3, height |-> 2 ],
      [ x |-> 0, y |-> 0, width |-> 800, height |-> 480 ] }

\* The rectangle main() passes for a slot: Rect::new(x_offset, 0, 400, 480)
SlotRect(slot, build) == Rect_new(IF slot = 0 THEN 0 ELSE 400, 0, 400, 480, build)

\* A call of Rect::new
NewRect ==
    /\ \E x \in RectXs, y \in RectYs, width \in RectWidths,
          height \in RectHeights, build \in Builds :
          call' = Some([ op |-> "Rect::new", build |-> build,
                         x |-> x, y |-> y, width |-> width, height |-> height,
                         result |-> Rect_new(x, y, width, height, build) ])
    /\ UNCHANGED << device, img_dir, img_bad, leds >>

\* A call of partial_update_start with a rectangle made by Rect::new or field
\* by field, and a buffer of the rectangle's size or of half a frame
PartialUpdateStart ==
    /\ \E build \in Builds :
         \E rect \in { Rect_new(x, y, w, h, "release")[1] :
                         x \in RectXs, y \in RectYs, w \in RectWidths,
                         h \in RectHeights } \cup RectLiterals :
           \E len \in { buffer_size(rect), HALF_BUFFER_SIZE } :
              call' = Some([ op |-> "partial_update_start", build |-> build,
                             rect |-> rect, buffer_len |-> len,
                             by_main |-> FALSE,
                             result |-> partial_update_start(rect, len, build) ])
    /\ UNCHANGED << device, img_dir, img_bad, leds >>

\* The call main() makes in the partial-refresh branch
MainPartialUpdate ==
    /\ \E build \in Builds, slot \in { 0, 1 } :
         LET rect == SlotRect(slot, build)[1]
         IN  call' = Some([ op |-> "partial_update_start", build |-> build,
                            rect |-> rect, buffer_len |-> HALF_BUFFER_SIZE,
                            by_main |-> TRUE,
                            result |-> partial_update_start(rect, HALF_BUFFER_SIZE,
                                                            build) ])
    /\ UNCHANGED << device, img_dir, img_bad, leds >>

EpdNext ==
    \/ NewRect
    \/ PartialUpdateStart
    \/ MainPartialUpdate

\* The rectangle functions applied to the arguments above
EpdSpec == Init /\ [][EpdNext]_vars

(***************************************************************************)
(* The SD-card image cache (cache.rs): file names and cleanup_stale        *)
(***************************************************************************)
\* Capacity of valid_hashes and of to_delete in cleanup_stale
VALID_HASHES_CAP == 128
TO_DELETE_CAP == 64

\* path_hash: djb2 of the bytes of the path
path_hash(path) == HashBytes(<<0, 5381>>, path)

\* A u32 written with {:08X}: eight hexadecimal digits, as their values
HexDigits(h) ==
    << h[1] \div 4096, (h[1] \div 256) % 16, (h[1] \div 16) % 16, h[1] % 16,
       h[2] \div 4096, (h[2] \div 256) % 16, (h[2] \div 16) % 16, h[2] % 16 >>

\* A file name is its base, a sequence of characters (0..15 a hexadecimal
\* digit of that value, 16 any other character), and its extension
cache_filename(path) == [ base |-> HexDigits(path_hash(path)), ext |-> "PNG" ]

\* u32::from_str_radix(s, 16) of at most eight characters
RECURSIVE HexValue(_, _)
HexValue(acc, digits) ==
    IF digits = <<>> THEN acc
    ELSE HexValue(acc * 16 + Head(digits), Tail(digits))

from_str_radix(digits) ==
    IF digits = <<>> \/ Len(digits) > 8 \/ \E i \in 1..Len(digits) : digits[i] > 15
      THEN None
      ELSE LET n  == Len(digits)
               hi == IF n > 4 THEN SubSeq(digits, 1, n - 4) ELSE <<>>
               lo == IF n > 4 THEN SubSeq(digits, n - 3, n) ELSE digits
           IN  Some(<< HexValue(0, hi), HexValue(0, lo) >>)

\* parse_cache_filename: the suffix .PNG or .png stripped, the rest read as
\* hexadecimal
parse_cache_filename(name) ==
    IF name.ext \notin { "PNG", "png" } THEN None ELSE from_str_radix(name.base)

\* valid_hashes: a push beyond the capacity is dropped
ValidHashes(valid_items) ==
    { path_hash(valid_items[i]) :
        i \in 1..(IF Len(valid_items) < VALID_HASHES_CAP THEN Len(valid_items)
                  ELSE VALID_HASHES_CAP) }

IsStale_AnyParsed(name, valid_hashes) == parse_cache_filename(name) # None

\* The test that puts a directory entry on the to_delete list
IsStale(name, valid_hashes) ==
    /\ parse_cache_filename(name) # None
    /\ parse_cache_filename(name)[1] \notin valid_hashes

\* The sets left when k entries are taken out of a set
RECURSIVE Without(_, _)
Without(set, k) ==
    IF k = 0 THEN { set }
    ELSE UNION { Without(set \ { f }, k - 1) : f \in set }

\* The entries of one directory on the to_delete list: the stale ones, as
\* many as the list holds (which ones depends on the order of the directory)
ToDelete(files, valid_hashes) ==
    LET stale == { f \in files : IsStale(f, valid_hashes) }
    IN  IF Cardinality(stale) <= TO_DELETE_CAP THEN { stale }
        ELSE Without(stale, Cardinality(stale) - TO_DELETE_CAP)

\* Paths whose images are written to the cache
ImagePaths == { IdA, IdAB, IdBA }

\* Lists cleanup_stale is called with
CleanupLists == Catalogs \cup { <<IdA>> }

\* Files in the directories that no write_image made: 1.PNG and a name that
\* is not hexadecimal
OtherFiles == { [ base |-> <<1>>, ext |-> "PNG" ], [ base |-> <<16, 14>>, ext |-> "PNG" ] }

CacheInit ==
    /\ DeviceOff
    /\ img_dir \in [ { Horizontal, Vertical } -> SUBSET OtherFiles ]
    /\ img_bad = [ o \in { Horizontal, Vertical } |-> {} ]
    /\ call = None
    /\ LedsOff

\* write_image: the file named cache_filename(path) is created or truncated
\* in the directory of the orientation
WriteImage ==
    /\ \E path \in ImagePaths, o \in { Horizontal, Vertical } :
          /\ img_dir' = [ img_dir EXCEPT ![o] = @ \cup { cache_filename(path) } ]
          /\ img_bad' = [ img_bad EXCEPT ![o] = @ \ { cache_filename(path) } ]
          /\ call' = Some([ op |-> "write_image", path |-> path, orientation |-> o ])
    /\ UNCHANGED << device, leds >>

\* The outcomes of deleting the entries on a to_delete list: every entry is
\* deleted, or delete_file_in_dir fails for some of them (failures are
\* enumerated for the files no write_image made)
Deleted(to_delete) == { to_delete \ refused : refused \in SUBSET (to_delete \cap OtherFiles) }

\* cleanup_stale: in each orientation directory the entries on the to_delete
\* list are deleted, those whose deletion succeeds being counted
CleanupStale ==
    /\ \E valid_items \in CleanupLists :
         LET valid_hashes == ValidHashes(valid_items)
         IN  \E tdh \in ToDelete(img_dir[Horizontal], valid_hashes),
                tdv \in ToDelete(img_dir[Vertical], valid_hashes) :
               \E gone_h \in Deleted(tdh), gone_v \in Deleted(tdv) :
                  /\ img_dir' = [ o \in { Horizontal, Vertical } |->
                                    img_dir[o] \ (IF o = Horizontal THEN gone_h
                                                  ELSE gone_v) ]
                  /\ img_bad' = [ o \in { Horizontal, Vertical } |->
                                    img_bad[o] \ (IF o = Horizontal THEN gone_h
                                                  ELSE gone_v) ]
                  /\ call' = Some([ op |-> "cleanup_stale",
                                    valid_items |-> valid_items,
                                    removed |-> Cardinality(gone_h)
                                                + Cardinality(gone_v),
                                    failed |-> Cardinality(tdh \ gone_h)
                                               + Cardinality(tdv \ gone_v) ])
    /\ UNCHANGED << device, leds >>

CacheNext ==
    \/ WriteImage
    \/ CleanupStale

\* The image cache written and cleaned up, from directories holding any of
\* the other files
CacheSpec == CacheInit /\ [][CacheNext]_vars

\* A directory holding one stale file more than the to_delete list holds:
\* 01.PNG, 02.PNG, ...
ManyStale ==
    { [ base |-> << i \div 16, i % 16 >>, ext |-> "PNG" ] : i \in 1..(TO_DELETE_CAP + 1) }

\* The cache after enough catalog turnover to leave horiz/ with that many
\* stale images
CacheFullInit ==
    /\ DeviceOff
    /\ img_dir \in { [ o \in { Horizontal, Vertical } |->
                         IF o = Horizontal THEN ManyStale ELSE other ] :
                      other \in SUBSET OtherFiles }
    /\ img_bad = [ o \in { Horizontal, Vertical } |-> {} ]
    /\ call = None
    /\ LedsOff

\* cleanup_stale called on such a cache, at every wake that refreshes the
\* catalog
CacheFullSpec == CacheFullInit /\ [][CleanupStale]_vars

(***************************************************************************)
(* The LEDs: main() followed from await to await, the flash requests and   *)
(* the LED task.  The executor is cooperative: the LED task and the button *)
(* monitor run only while main() is suspended at an await.                 *)
(***************************************************************************)
\* The red LED mode is the pair << LED_RED_BLINK, LED_RED_INTERVAL >>
start_blink(mode) == << TRUE, 500 >>
start_fast_blink(mode) == << TRUE, 100 >>
stop_blink(mode) == << FALSE, mode[2] >>

\* Awaits of main(): Wi-Fi association, the wait for an address, the catalog
\* fetch and the pause before its retry, an image fetch, the prefetch, the
\* catalog refresh, the poll of the busy line, the yield at the end of a
\* pass, the Wi-Fi shutdown
AwaitPoints ==
    { "assoc", "ip_wait", "catalog_fetch", "retry_wait", "image_fetch",
      "prefetch", "catalog_refresh", "busy_poll", "yield", "disconnect" }

\* Awaits on the network, on a timer or on the panel: they last long enough
\* for the LED task to finish what was requested before main() resumes (a
\* flash takes 200 ms, a refresh seconds)
LongAwaits == AwaitPoints \ { "yield", "disconnect" }

\* The LED task has nothing pending
LedQuiet == led_green_flash = 0 /\ led_pulses = 0

\* main() resumes at position r with the red LED mode `mode`
Resume(r, mode) ==
    /\ run' = r
    /\ led_red_blink' = mode[1]
    /\ led_red_interval' = mode[2]

\* ensure_wifi! when Wi-Fi is down: fast blink, then the await in wifi_connect
StartWifi(r, mode, site) ==
    Resume([ r EXCEPT !.at = "assoc", !.site = site ], start_fast_blink(mode))

\* The overlapped work is over: the full-refresh branch stops the blink; both
\* branches poll the busy line
AfterOverlap(r, mode) ==
    Resume([ r EXCEPT !.at = "busy_poll" ],
           IF r.kind = "full" THEN stop_blink(mode) ELSE mode)

\* After the prefetch: the catalog is fetched again when the boot used the
\* cached one
AfterPrefetch(r, mode) ==
    IF r.cached THEN Resume([ r EXCEPT !.at = "catalog_refresh" ], mode)
    ELSE AfterOverlap(r, mode)

\* Overlapped with the refresh, Wi-Fi being up: the prefetch when the next
\* image is not cached
AfterEnsureWifi(r, mode) ==
    \E has_image \in BOOLEAN :
       IF has_image THEN AfterPrefetch(r, mode)
       ELSE Resume([ r EXCEPT !.at = "prefetch" ], mode)

\* The images are there or not; started is display_started.  When started the
\* monitor is spawned and ensure_wifi! runs; when not, the partial-refresh
\* branch stops the blink and both branches yield
AfterImages(r, mode, started) ==
    IF started
      THEN LET r1 == [ r EXCEPT !.button = BUTTON_POLLING ]
           IN  IF r1.wifi THEN AfterEnsureWifi(r1, mode)
               ELSE StartWifi(r1, mode, "overlap")
      ELSE Resume([ r EXCEPT !.at = "yield", !.yielded = FALSE ],
                  IF r.kind = "partial" THEN stop_blink(mode) ELSE mode)

\* Boot up to the first await or the display loop: the statics are as
\* initialised, a button wake stores its flash count, and without a cached
\* catalog ensure_wifi! begins
RunBoot ==
    /\ run.at \in { "off", "deep_sleep" }
    /\ \E button_wake \in BOOLEAN, held \in BOOLEAN, cached \in BOOLEAN :
          /\ led_green_flash' = IF ~button_wake THEN 0
                                ELSE FlashCount(IF held THEN BUTTON_FLIP
                                                ELSE BUTTON_NEXT)
          /\ LET r == [ NoRun EXCEPT !.cached = cached ]
             IN  IF cached THEN Resume([ r EXCEPT !.at = "pass" ], << FALSE, 500 >>)
                 ELSE StartWifi(r, << FALSE, 500 >>, "initial")
    /\ led_pulses' = 0
    /\ UNCHANGED << device, img_dir, img_bad, call >>

\* wifi_connect: connect_async returned Ok, the blink is stopped, and
\* wait_for_ip begins
RunConnected ==
    /\ run.at = "assoc"
    /\ LedQuiet
    /\ Resume([ run EXCEPT !.at = "ip_wait" ],
              stop_blink(<< led_red_blink, led_red_interval >>))
    /\ UNCHANGED << device, img_dir, img_bad, call, led_green_flash, led_pulses >>

\* wait_for_ip returned: ensure_wifi! is over and main() goes on where it
\* was called
RunGotIp ==
    /\ run.at = "ip_wait"
    /\ LedQuiet
    /\ LET r    == [ run EXCEPT !.wifi = TRUE, !.site = "none" ]
           mode == << led_red_blink, led_red_interval >>
       IN  IF run.site = "initial"
             THEN Resume([ r EXCEPT !.at = "catalog_fetch" ], start_blink(mode))
           ELSE IF run.site = "image"
             THEN Resume([ r EXCEPT !.at = "image_fetch" ], mode)
           ELSE AfterEnsureWifi(r, mode)
    /\ UNCHANGED << device, img_dir, img_bad, call, led_green_flash, led_pulses >>

\* Connections counted in a wake, at most
MaxConns == 2

\* How a call of fetch_widget_data ends: Ok; an Err after the response was
\* received (a status of 400 or more, a body that is not a list, an empty
\* list); an Err before that (no address, no connection, no response)
FetchResults == { "ok", "response_err", "network_err" }

\* fetch_widget_data makes an HttpClient of its own and opens a connection
\* with client.resource(edge_url); the connection is dropped when it returns.
\* A call that got a response has opened one.
Connected(r, result) ==
    IF result = "network_err" \/ r.conns = MaxConns THEN r
    ELSE [ r EXCEPT !.conns = @ + 1 ]

\* The initial catalog fetch returned: the blink is stopped; on an error
\* main() waits 30 s
RunCatalogFetched ==
    /\ run.at = "catalog_fetch"
    /\ LedQuiet
    /\ \E result \in FetchResults :
          Resume([ Connected(run, result) EXCEPT
                      !.at = IF result = "ok" THEN "pass" ELSE "retry_wait" ],
                 stop_blink(<< led_red_blink, led_red_interval >>))
    /\ UNCHANGED << device, img_dir, img_bad, call, led_green_flash, led_pulses >>

\* The 30 s are over: start_blink and the next request
RunRetry ==
    /\ run.at = "retry_wait"
    /\ LedQuiet
    /\ Resume([ run EXCEPT !.at = "catalog_fetch" ],
              start_blink(<< led_red_blink, led_red_interval >>))
    /\ UNCHANGED << device, img_dir, img_bad, call, led_green_flash, led_pulses >>

\* A pass of the display loop up to its first await: start_blink, then the
\* cache is asked; on a miss ensure_wifi! and the fetch, else the refresh is
\* started or not
RunPass ==
    /\ run.at = "pass"
    /\ \E kind \in { "partial", "full" }, miss \in BOOLEAN, started \in BOOLEAN :
          LET r    == [ run EXCEPT !.kind = kind ]
              mode == start_blink(<< led_red_blink, led_red_interval >>)
          IN  IF miss
                THEN IF r.wifi THEN Resume([ r EXCEPT !.at = "image_fetch" ], mode)
                     ELSE StartWifi(r, mode, "image")
                ELSE AfterImages(r, mode, started)
    /\ UNCHANGED << device, img_dir, img_bad, call, led_green_flash, led_pulses >>

\* The fetch of a missed image returned
RunImageFetched ==
    /\ run.at = "image_fetch"
    /\ LedQuiet
    /\ \E started \in BOOLEAN :
          AfterImages(run, << led_red_blink, led_red_interval >>, started)
    /\ UNCHANGED << device, img_dir, img_bad, call, led_green_flash, led_pulses >>

\* The prefetch returned
RunPrefetched ==
    /\ run.at = "prefetch"
    /\ LedQuiet
    /\ AfterPrefetch(run, << led_red_blink, led_red_interval >>)
    /\ UNCHANGED << device, img_dir, img_bad, call, led_green_flash, led_pulses >>

\* The catalog refresh returned
RunCatalogRefreshed ==
    /\ run.at = "catalog_refresh"
    /\ LedQuiet
    /\ \E result \in FetchResults :
          AfterOverlap(Connected(run, result), << led_red_blink, led_red_interval >>)
    /\ UNCHANGED << device, img_dir, img_bad, call, led_green_flash, led_pulses >>

\* The busy line released: the refresh is finished, the partial-refresh
\* branch stops the blink, and main() yields
RunIdle ==
    /\ run.at = "busy_poll"
    /\ LedQuiet
    /\ Resume([ run EXCEPT !.at = "yield", !.yielded = FALSE ],
              IF run.kind = "partial"
                THEN stop_blink(<< led_red_blink, led_red_interval >>)
                ELSE << led_red_blink, led_red_interval >>)
    /\ UNCHANGED << device, img_dir, img_bad, call, led_green_flash, led_pulses >>

\* After the yield: the panel is put to sleep and BUTTON_STATE swapped; Next
\* or Flip starts another pass, else the record is saved and, when Wi-Fi was
\* never brought up, deep sleep is entered without another await
RunEndPass ==
    /\ run.at = "yield"
    /\ LET r == [ run EXCEPT !.button = BUTTON_CANCELLED, !.kind = "none",
                             !.yielded = FALSE ]
       IN  run' = IF run.button \in { BUTTON_NEXT, BUTTON_FLIP }
                    THEN [ r EXCEPT !.at = "pass" ]
                  ELSE IF run.wifi THEN [ r EXCEPT !.at = "disconnect" ]
                  ELSE [ r EXCEPT !.at = "deep_sleep" ]
    /\ UNCHANGED << device, img_dir, img_bad, call, led_red_blink, led_red_interval,
                    led_green_flash, led_pulses >>

\* wifi_disconnect returned: deep sleep
RunDisconnected ==
    /\ run.at = "disconnect"
    /\ run' = [ run EXCEPT !.at = "deep_sleep" ]
    /\ UNCHANGED << device, img_dir, img_bad, call, led_red_blink, led_red_interval,
                    led_green_flash, led_pulses >>

\* The button monitor, spawned with the refresh, reports a press: the
\* compare-exchange from POLLING and the store of the flash count
RunMonitorReport ==
    /\ run.at \in AwaitPoints
    /\ run.button = BUTTON_POLLING
    /\ \E outcome \in { BUTTON_NEXT, BUTTON_FLIP } :
          /\ run' = [ run EXCEPT !.button = outcome ]
          /\ led_green_flash' = FlashCount(outcome)
    /\ UNCHANGED << device, img_dir, img_bad, call, led_red_blink, led_red_interval,
                    led_pulses >>

\* led_task at the head of its loop: the request is swapped out and the
\* first pulse begins.  A yield of main() lets the task run once.
LedConsume ==
    /\ run.at \in AwaitPoints
    /\ run.at = "yield" => ~run.yielded
    /\ led_pulses = 0
    /\ led_green_flash > 0
    /\ led_pulses' = led_green_flash
    /\ led_green_flash' = 0
    /\ run' = [ run EXCEPT !.yielded = (run.at = "yield") ]
    /\ UNCHANGED << device, img_dir, img_bad, call, led_red_blink, led_red_interval >>

\* led_task completes a pulse: 100 ms on, 100 ms off, two timer awaits
LedPulse ==
    /\ run.at \in AwaitPoints \ { "yield" }
    /\ led_pulses > 0
    /\ led_pulses' = led_pulses - 1
    /\ UNCHANGED << device, img_dir, img_bad, call, led_red_blink, led_red_interval,
                    led_green_flash, run >>

LedNext ==
    \/ RunBoot
    \/ RunConnected
    \/ RunGotIp
    \/ RunCatalogFetched
    \/ RunRetry
    \/ RunPass
    \/ RunImageFetched
    \/ RunPrefetched
    \/ RunCatalogRefreshed
    \/ RunIdle
    \/ RunEndPass
    \/ RunDisconnected
    \/ RunMonitorReport
    \/ LedConsume
    \/ LedPulse

\* main() from await to await with the LED task and the button monitor
LedSpec == Init /\ [][LedNext]_vars

(***************************************************************************)
(* WIDGET.JSN: the catalog written as JSON text by store_widget_data and   *)
(* read back by load_widget_data (cache.rs).  Text is a sequence of bytes. *)
(***************************************************************************)
MAX_ITEMS == 128
MAX_PATH_LEN == 48

\* The read buffer of load_widget_data
WIDGET_BUF_LEN == 6144

\* Bytes of the JSON punctuation: [ ] " ,
LBRACKET == 91
RBRACKET == 93
QUOTE == 34
COMMA == 44

\* The bytes written for the identifiers lo..hi: each between two quotes,
\* byte for byte, with "," before every one but the first
RECURSIVE WriteItems(_, _, _)
WriteItems(list, lo, hi) ==
    IF lo > hi THEN <<>>
    ELSE IF lo = hi
      THEN (IF lo > 1 THEN << COMMA >> ELSE <<>>) \o << QUOTE >> \o list[lo] \o << QUOTE >>
    ELSE LET mid == (lo + hi) \div 2
         IN  WriteItems(list, lo, mid) \o WriteItems(list, mid + 1, hi)

\* store_widget_data: "[", the identifiers, "]"
store_widget_data(list) ==
    << LBRACKET >> \o WriteItems(list, 1, Len(list)) \o << RBRACKET >>

\* The read loop of load_widget_data: the file up to the length of the buffer
ReadFile(bytes) ==
    IF Len(bytes) <= WIDGET_BUF_LEN THEN bytes ELSE SubSeq(bytes, 1, WIDGET_BUF_LEN)

\* The position of the first quote at or after position i, 0 when none
NextQuote(bytes, i) ==
    LET quotes == { j \in i..Len(bytes) : bytes[j] = QUOTE }
    IN  IF quotes = {} THEN 0
        ELSE CHOOSE j \in quotes : \A k \in quotes : j <= k

\* serde_json_core::from_str into WidgetData, for text without white space
\* and without escapes: an array of strings, each ending at the next quote;
\* an Err is None.  A string opens at position i; acc holds the strings read.
RECURSIVE ParseStrings(_, _, _)
ParseStrings(bytes, i, acc) ==
    IF i > Len(bytes) \/ bytes[i] # QUOTE THEN None
    ELSE LET close == NextQuote(bytes, i + 1)
         IN  IF close = 0 \/ close - i - 1 > MAX_PATH_LEN \/ Len(acc) = MAX_ITEMS
               THEN None
             ELSE LET strings == Append(acc, SubSeq(bytes, i + 1, close - 1))
                  IN  IF close + 1 > Len(bytes) THEN None
                      ELSE IF bytes[close + 1] = COMMA
                        THEN ParseStrings(bytes, close + 2, strings)
                      ELSE IF bytes[close + 1] = RBRACKET /\ close + 1 = Len(bytes)
                        THEN Some(strings)
                      ELSE None

\* Text that does not begin with "[" and end with "]" is no array
from_str(bytes) ==
    IF Len(bytes) < 2 \/ bytes[1] # LBRACKET \/ bytes[Len(bytes)] # RBRACKET THEN None
    ELSE IF bytes[2] = RBRACKET THEN (IF Len(bytes) = 2 THEN Some(<<>>) ELSE None)
    ELSE ParseStrings(bytes, 2, <<>>)

\* load_widget_data of a file holding these bytes: what the buffer holds is
\* parsed, and an empty list is None
LoadWidgetFile(bytes) == load_widget_data(from_str(ReadFile(bytes)))

\* Characters of the identifiers stored: a letter, the quote and the comma
PathChars == { 97, QUOTE, COMMA }

\* Identifiers of at most MaxPathLen characters
MaxPathLen == 2
Paths == UNION { [ 1..n -> PathChars ] : n \in 0..MaxPathLen }

\* A list of MAX_ITEMS identifiers of MAX_PATH_LEN letters
FullList == [ i \in 1..MAX_ITEMS |-> [ j \in 1..MAX_PATH_LEN |-> 97 ] ]

\* The lists stored: those of at most two identifiers, the identifier a","a
\* alone, and the full list
StoredLists ==
    UNION { [ 1..n -> Paths ] : n \in 0..2 }
      \cup { << << 97, QUOTE, COMMA, QUOTE, 97 >> >>, FullList }

\* store_widget_data(list) writes WIDGET.JSN
StoreWidgetData ==
    /\ \E list \in StoredLists :
          call' = Some([ op |-> "store_widget_data", items |-> list,
                         file |-> store_widget_data(list) ])
    /\ UNCHANGED << device, img_dir, img_bad, leds >>

\* load_widget_data() reads it back
LoadWidgetData ==
    /\ call # None /\ call[1].op = "store_widget_data"
    /\ call' = Some([ op |-> "load_widget_data", items |-> call[1].items,
                      loaded |-> LoadWidgetFile(call[1].file) ])
    /\ UNCHANGED << device, img_dir, img_bad, leds >>

WidgetFileNext ==
    \/ StoreWidgetData
    \/ LoadWidgetData

\* The catalog stored on the SD card and loaded again
WidgetFileSpec == Init /\ [][WidgetFileNext]_vars

(***************************************************************************)
(* One press seen by both classifiers: the boot-time check of main() and   *)
(* button_monitor_task.  A press is the sequence of the readings of the    *)
(* key taken BUTTON_POLL_MS apart, TRUE for low, the first one low.        *)
(***************************************************************************)
\* Readings in a press
MaxSamples == 11

Presses == { s \in [ 1..MaxSamples -> BOOLEAN ] : s[1] }

\* The number of readings from position i on that are low without a break
RECURSIVE LowRun(_, _)
LowRun(samples, i) ==
    IF i > Len(samples) \/ ~samples[i] THEN 0 ELSE 1 + LowRun(samples, i + 1)

\* The boot-time check: each pass of `while key_input.is_low()` takes the
\* next reading after its 50 ms wait
BootClassify(samples) ==
    IF BootHeld(BootHoldTime(0, LowRun(samples, 1))) THEN BUTTON_FLIP ELSE BUTTON_NEXT

\* The monitor: `if key_input.is_low()` and the first test of the hold loop
\* take the first reading, every later test the next one
MonitorClassifyPress(samples) == MonitorClassify(0, LowRun(samples, 1))

\* A press classified by both
ClassifyPress ==
    /\ \E samples \in Presses :
          call' = Some([ op |-> "classify", samples |-> samples,
                         boot |-> BootClassify(samples),
                         monitor |-> MonitorClassifyPress(samples) ])
    /\ UNCHANGED << device, img_dir, img_bad, leds >>

\* Presses of every shape classified
ButtonSpec == Init /\ [][ClassifyPress]_vars

(***************************************************************************)
(* The display attempts and the image cache (main.rs, cache.rs)            *)
(***************************************************************************)
\* has_image: the file of the path opens in the directory of the orientation
has_image(dir, path, o) == cache_filename(path) \in dir[o]

\* write_image of fetched bytes on a cache [dir, bad]: it fails before the
\* file is created ("not_created"), or the file is created or truncated and
\* the bytes are written ("written") or the write fails ("truncated")
write_image(cache, path, o, fetched, written) ==
    LET filename == cache_filename(path)
    IN  IF written = "not_created" THEN cache
        ELSE [ dir |-> [ cache.dir EXCEPT ![o] = @ \cup { filename } ],
               bad |-> [ cache.bad EXCEPT ![o] =
                           IF written = "written" /\ fetched = "png"
                             THEN @ \ { filename }
                             ELSE @ \cup { filename } ] ]

\* LoadSlot that goes to the network when the cached file cannot be shown
LoadSlot_FetchesUnreadable(cache, path, o, fetched, written) ==
    IF has_image(cache.dir, path, o) /\ cache_filename(path) \notin cache.bad[o]
      THEN [ cache |-> cache, path |-> path, hit |-> TRUE, network |-> FALSE,
             shown |-> TRUE ]
      ELSE [ cache |-> IF fetched = "err" THEN cache
                       ELSE write_image(cache, path, o, fetched, written),
             path |-> path, hit |-> has_image(cache.dir, path, o),
             network |-> TRUE, shown |-> fetched = "png" ]

\* The image of one slot brought into png_buf and rendered: read from the
\* cache on a hit (png_len 0 when the read fails or finds no bytes), fetched
\* and stored on a miss
LoadSlot(cache, path, o, fetched, written) ==
    IF has_image(cache.dir, path, o)
      THEN [ cache |-> cache, path |-> path, hit |-> TRUE, network |-> FALSE,
             shown |-> cache_filename(path) \notin cache.bad[o] ]
      ELSE [ cache |-> IF fetched = "err" THEN cache
                       ELSE write_image(cache, path, o, fetched, written),
             path |-> path, hit |-> FALSE, network |-> TRUE,
             shown |-> fetched = "png" ]

\* The slot as the attempt records it
SlotRecord(slot) == [ path |-> slot.path, hit |-> slot.hit,
                      network |-> slot.network, shown |-> slot.shown ]

\* The refresh is started when every slot was rendered; starting it may fail
Started(slots) ==
    IF \A k \in 1..Len(slots) : slots[k].shown THEN BOOLEAN ELSE { FALSE }

\* What fetching an image and storing it may come to: display::fetch_png
\* hands back an error, the bytes of a PNG, or bytes that are no PNG (or
\* none at all), and write_image stores what it is given or fails
FetchStores ==
    { << "err", "not_created" >>, << "png", "written" >>,
      << "png", "truncated" >>, << "not_png", "written" >> }

\* Items shown in the two slots of one screen: items[index] and the item
\* after it, which is the same item in a catalog of one
SlotPaths ==
    { << IdA, IdAB >>, << IdBA, IdA >>, << IdAB, IdAB >> }

\* Partial path: the image of the one item, in horiz/
PartialAttempt ==
    /\ \E path \in ImagePaths, fs \in FetchStores :
         LET slot == LoadSlot([ dir |-> img_dir, bad |-> img_bad ], path,
                              Horizontal, fs[1], fs[2])
         IN  /\ img_dir' = slot.cache.dir
             /\ img_bad' = slot.cache.bad
             /\ \E started \in Started(<< slot >>) :
                   call' = Some([ op |-> "attempt", kind |-> "partial",
                                  orientation |-> Horizontal,
                                  slots |-> << SlotRecord(slot) >>,
                                  started |-> started ])
    /\ UNCHANGED << device, leds >>

\* Full path, vertical: for slot in 0..items_per_screen, with one slot
FullAttemptVertical ==
    /\ \E path \in ImagePaths, fs \in FetchStores :
         LET slot == LoadSlot([ dir |-> img_dir, bad |-> img_bad ], path,
                              Vertical, fs[1], fs[2])
         IN  /\ img_dir' = slot.cache.dir
             /\ img_bad' = slot.cache.bad
             /\ \E started \in Started(<< slot >>) :
                   call' = Some([ op |-> "attempt", kind |-> "full",
                                  orientation |-> Vertical,
                                  slots |-> << SlotRecord(slot) >>,
                                  started |-> started ])
    /\ UNCHANGED << device, leds >>

\* Full path, horizontal: for slot in 0..items_per_screen, with two slots
FullAttemptHorizontal ==
    /\ \E paths \in SlotPaths, fs0 \in FetchStores, fs1 \in FetchStores :
         LET slot0 == LoadSlot([ dir |-> img_dir, bad |-> img_bad ], paths[1],
                               Horizontal, fs0[1], fs0[2])
             slot1 == LoadSlot(slot0.cache, paths[2], Horizontal, fs1[1], fs1[2])
         IN  /\ img_dir' = slot1.cache.dir
             /\ img_bad' = slot1.cache.bad
             /\ \E started \in Started(<< slot0, slot1 >>) :
                   call' = Some([ op |-> "attempt", kind |-> "full",
                                  orientation |-> Horizontal,
                                  slots |-> << SlotRecord(slot0), SlotRecord(slot1) >>,
                                  started |-> started ])
    /\ UNCHANGED << device, leds >>

\* Prefetch of the next image during the refresh: fetched and stored when
\* has_image finds no file
PrefetchImage ==
    /\ \E o \in { Horizontal, Vertical }, path \in ImagePaths, fs \in FetchStores :
         LET cache == [ dir |-> img_dir, bad |-> img_bad ]
             after == IF has_image(img_dir, path, o) \/ fs[1] = "err" THEN cache
                      ELSE write_image(cache, path, o, fs[1], fs[2])
         IN  /\ img_dir' = after.dir
             /\ img_bad' = after.bad
             /\ call' = Some([ op |-> "prefetch", path |-> path,
                               orientation |-> o,
                               network |-> ~has_image(img_dir, path, o) ])
    /\ UNCHANGED << device, leds >>

HitNext ==
    \/ PartialAttempt
    \/ FullAttemptVertical
    \/ FullAttemptHorizontal
    \/ PrefetchImage
    \/ CleanupStale

\* The display attempts, the prefetches and the catalog refreshes of any
\* number of wakes, on a card whose cache starts empty
HitSpec == Init /\ [][HitNext]_vars
(***************************************************************************)
(* Claims                                                                  *)
(***************************************************************************)
\* The panel shows the two-slot Horizontal layout that the pair slots records
PanelHolds(slots) == panel = << "H", slots[1], slots[2] >>

\* C1: a partial refresh is started only over a panel that holds the two-slot
\* Horizontal layout recorded in slot_items (a Horizontal full refresh was
\* started since the last fresh start and orientation change, no Vertical
\* refresh in between), and a saved record with Horizontal orientation and
\* index >= 2 describes such a panel.
C1_PartialOnlyOverHorizontalLayout ==
    /\ (cycle.kind = "partial" /\ cycle.started)
          => cycle.pre_panel = << "H", cycle.pre_slot_items[1], cycle.pre_slot_items[2] >>
    /\ (pc = "sleep" /\ is_valid(rtc) /\ get_orientation(rtc) = Horizontal
          /\ rtc.index >= 2)
          => PanelHolds(rtc.slot_items)

\* The display cycle just run was the first of its wake
FirstCycleRan == cycle.kind # "none" /\ cycle.first

\* C2: at boot can_partial holds exactly when the record is valid, its
\* total_items and data_hash are those of the loaded (shuffled) catalog, the
\* wake's orientation and the saved orientation are Horizontal and the saved
\* index is at least 2; the first cycle is a partial refresh iff can_partial.
C2_CanPartialIff ==
    /\ (pc = "loop" /\ first) =>
          (can_partial <=>
              /\ is_valid(rtc)
              /\ rtc.total_items = Len(items)
              /\ rtc.data_hash = hash_data(items)
              /\ orientation = Horizontal
              /\ get_orientation(rtc) = Horizontal
              /\ rtc.index >= 2)
    /\ FirstCycleRan => (cycle.kind = "partial" <=> can_partial)

C2_Witness ==
    /\ pc = "overlap" /\ FirstCycleRan
    /\ cycle.kind = "partial" /\ can_partial

\* C3: after a partial refresh of slot s = next_slot with the item at
\* index mod N was started, slot_items[s] is that item, next_slot = 1 - s,
\* index grew by exactly 1 and the other slot is as before; when the refresh
\* was not started, slot_items, next_slot and index are as before.
C3_PartialSlotTracking ==
    (cycle.kind = "partial") =>
        LET s == cycle.pre_next_slot
        IN  IF cycle.started
              THEN /\ slot_items[s + 1] = cycle.sel % total_items
                   /\ slot_items[2 - s] = cycle.pre_slot_items[2 - s]
                   /\ next_slot = 1 - s
                   /\ index = cycle.sel + 1
              ELSE /\ slot_items = cycle.pre_slot_items
                   /\ next_slot = s
                   /\ index = cycle.sel

C3_Witness ==
    /\ pc = "overlap" /\ cycle.kind = "partial" /\ cycle.started
    /\ cycle.pre_next_slot = 1 /\ next_slot = 0
    /\ slot_items[2] # cycle.pre_slot_items[2]

\* C4: after a full refresh was started from index over N items: in
\* Horizontal mode slot_items = [index mod N, (index+1) mod N], next_slot = 0,
\* index grew by exactly 2 and partial mode is enabled; in Vertical mode index
\* grew by exactly 1 and slot_items, next_slot, use_partial are as before.
C4_FullSlotTracking ==
    (cycle.kind = "full" /\ cycle.started) =>
        IF cycle.orient = Horizontal
          THEN /\ slot_items = << cycle.sel % total_items,
                                  (cycle.sel + 1) % total_items >>
               /\ next_slot = 0
               /\ index = cycle.sel + 2
               /\ use_partial
          ELSE /\ index = cycle.sel + 1
               /\ slot_items = cycle.pre_slot_items
               /\ next_slot = cycle.pre_next_slot
               /\ use_partial = cycle.pre_use_partial

C4_Witness ==
    /\ pc = "overlap" /\ cycle.kind = "full" /\ cycle.started
    /\ cycle.orient = Horizontal
    /\ total_items >= 2 /\ cycle.sel = total_items - 1
    /\ slot_items = << total_items - 1, 0 >>

\* C5: every record saved with valid magic has index <= total_items.
C5_SavedIndexWithinTotal ==
    is_valid(rtc) => rtc.index <= rtc.total_items

\* C6: when an item is selected for display the catalog is not empty and
\* 0 <= index < total_items; the display loop never runs on an empty catalog.
C6_IndexInRangeAtDisplay ==
    /\ (pc \in { "loop", "overlap", "finish" }) => total_items >= 1
    /\ (cycle.kind # "none") => (0 <= cycle.sel /\ cycle.sel < total_items)

C6_Witness ==
    /\ cycle.kind # "none"
    /\ cycle.pre_index >= total_items /\ cycle.sel = 0

\* C7 as stated: on a resume (valid record whose data_hash matches) the loop
\* starts with index, shuffle_seed, slot_items and next_slot of the record,
\* whether or not partial refresh is permitted.
C7_ResumeInheritsAll ==
    (pc = "loop" /\ first /\ resuming /\ data_matches) =>
        /\ index = rtc.index
        /\ shuffle_seed = rtc.shuffle_seed
        /\ slot_items = rtc.slot_items
        /\ next_slot = rtc.next_slot

\* C7 as amended: on a resume the loop starts with the record's index and
\* shuffle_seed; slot_items and next_slot are the record's when partial
\* refresh is permitted and [0,0] and 0 when it is not.
C7_ResumeInherits ==
    (pc = "loop" /\ first /\ resuming /\ data_matches) =>
        /\ index = rtc.index
        /\ shuffle_seed = rtc.shuffle_seed
        /\ IF can_partial
             THEN slot_items = rtc.slot_items /\ next_slot = rtc.next_slot
             ELSE slot_items = <<0, 0>> /\ next_slot = 0

C7_Witness ==
    /\ pc = "loop" /\ first /\ resuming /\ data_matches /\ ~can_partial
    /\ rtc.slot_items # <<0, 0>> /\ rtc.next_slot = 1 /\ rtc.index >= 2
    /\ index = rtc.index

\* C8: the stored seed is reused only on a resume with matching hash; a wake
\* whose valid record does not match the loaded catalog draws a new seed.
C8_SeedRegeneratedOnMismatch ==
    (pc = "loop" /\ first) => (~hist.seed_fresh <=> (resuming /\ data_matches))

\* C9: after a wake that left on the SD card a catalog different from the
\* cached one it booted with, the next wake finds the hash not matching and
\* its first cycle is a full refresh from index 0 with zeroed slots.
C9_ChangedCatalogForcesFullRefresh ==
    hist.prev_changed =>
        /\ (pc = "loop" /\ first) =>
              /\ ~data_matches /\ ~can_partial /\ ~use_partial
              /\ index = 0 /\ slot_items = <<0, 0>> /\ next_slot = 0
        /\ FirstCycleRan => (cycle.kind = "full" /\ cycle.sel = 0)

\* C10: a wake in which no refresh was started leaves the record as it was:
\* index, shuffle_seed, next_slot, slot_items and data_hash after the wake are
\* those of the valid, matching record found at boot.
C10_FailedWakeKeepsRecord ==
    [][ (pc = "save" /\ pc' = "sleep" /\ ~hist.started_any
           /\ resuming /\ data_matches) =>
          /\ rtc'.index = rtc.index
          /\ rtc'.shuffle_seed = rtc.shuffle_seed
          /\ rtc'.next_slot = rtc.next_slot
          /\ rtc'.slot_items = rtc.slot_items
          /\ rtc'.data_hash = rtc.data_hash ]_vars


(***************************************************************************)
(* Persistence, failure handling and the overlapped network work           *)
(***************************************************************************)
\* Positions at which main() is not running or will never run again
NotRunning == { "off", "sleep" } \cup StuckPoints

\* C11: while main() runs, the RTC record changes only in the step that enters
\* deep sleep from the end of the display loop, and every entry into deep
\* sleep is that step, writing main()'s locals into a valid record.
C11_RecordWrittenOnceBeforeSleep ==
    [][ /\ (pc \notin NotRunning /\ rtc' # rtc) => (pc = "save" /\ pc' = "sleep")
        /\ (pc # "sleep" /\ pc' = "sleep") =>
              /\ pc = "save"
              /\ is_valid(rtc')
              /\ rtc'.index = index
              /\ rtc'.total_items = total_items
              /\ rtc'.shuffle_seed = shuffle_seed
              /\ get_orientation(rtc') = orientation
              /\ rtc'.next_slot = next_slot
              /\ rtc'.slot_items = slot_items
              /\ rtc'.data_hash = hash_data(items) ]_vars

\* A record written after a pass advanced the index, a button outcome having
\* been consumed before
C11_Witness ==
    /\ pc = "sleep"
    /\ is_valid(rtc) /\ rtc.index >= 2
    /\ get_orientation(rtc) = Vertical

\* C12: a wake that meets a panel that stays busy, or whose initialisation,
\* wake-up or sleep command fails, still ends in deep sleep.
C12_DriverFailureNeverHangs ==
    [](pc \in { "busy_wait", "busy_poll", "panicked" } => <>(pc = "sleep"))

\* C13: a wake that booted from the cached catalog ends in deep sleep whatever
\* the network does (leaving aside the wakes a panel failure stops).
C13_CachedWakeAlwaysSleeps ==
    (pc = "loop" /\ has_cached_data)
        ~> (pc \in { "sleep", "busy_wait", "busy_poll", "panicked" })

\* C14: a display attempt whose images are all cache hits starts the refresh
\* with Wi-Fi as it found it, so on a boot from the cached catalog Wi-Fi is
\* still down when the first refresh starts; and with no cached catalog the
\* display loop is entered with Wi-Fi up and a catalog fetched.
C14_WifiDeferredOnCacheHits ==
    /\ (cycle.kind # "none" /\ cycle.fetch # None /\ cycle.fetch[1].all_hit) =>
          /\ cycle.fetch[1].wifi_at_start = cycle.fetch[1].wifi_before
          /\ wifi_connected = cycle.fetch[1].wifi_before
          /\ (cycle.first /\ has_cached_data) => ~wifi_connected
    /\ (pc = "loop" /\ first /\ ~has_cached_data) =>
          (wifi_connected /\ Len(items) > 0)

\* A first refresh started from the cache with Wi-Fi still down
C14_Witness ==
    /\ pc = "overlap" /\ cycle.started /\ cycle.first
    /\ has_cached_data /\ cycle.fetch[1].all_hit
    /\ ~wifi_connected

C16_CatalogStoredIffDiffers ==
    (cycle.kind # "none" /\ cycle.refresh # None /\ cycle.refresh[1].fetched) =>
        (cycle.refresh[1].stored <=> cycle.refresh[1].differs_from_cached)

\* C17: the pass after a successful refresh goes on to save and sleep only
\* when no press is in progress: a press the monitor is still timing when the
\* panel is idle is reported and acted on.
C17_PressAfterIdleAccepted ==
    [][ (pc = "finish" /\ cycle.started /\ pc' = "save") => monitor # "hold" ]_vars

C19_EarlyTapLatched ==
    (hist.early_tap /\ pc \in { "resume", "loop" }) => button_state = BUTTON_NEXT

\* C20: a run of the monitor reports at most once and is then over; it
\* reports Flip exactly when the button is still low at the poll taken
\* HOLD_THRESHOLD_MS after the first, else Next; the flash count stored is 3
\* (Flip) or 1 (Next) exactly when the compare-exchange from POLLING
\* succeeded; and when main() has cancelled, BUTTON_STATE stays CANCELLED and
\* no flash is requested.
C20_MonitorReportsOnce ==
    /\ []( mon_hist # None =>
             LET m == mon_hist[1]
             IN  /\ monitor = "dead"
                 /\ m.outcome \in { BUTTON_NEXT, BUTTON_FLIP }
                 /\ (m.outcome = BUTTON_FLIP) <=> m.low_at_threshold
                 /\ m.cas_ok <=> (m.seen = BUTTON_POLLING)
                 /\ m.cas_ok => /\ button_state = m.outcome
                                /\ m.flash = (IF m.outcome = BUTTON_FLIP THEN 3 ELSE 1)
                 /\ ~m.cas_ok => /\ button_state = BUTTON_CANCELLED
                                 /\ m.seen = BUTTON_CANCELLED
                                 /\ m.flash = 0 )
    /\ [][ /\ mon_hist # None => mon_hist' \in { mon_hist, None }
           /\ (monitor = "dead" /\ monitor' # "dead") =>
                 (button_state' = BUTTON_POLLING /\ mon_hist' = None)
           /\ (monitor = "poll" /\ button_state # BUTTON_POLLING /\ monitor' # monitor) =>
                 (monitor' = "dead" /\ mon_hist' = None
                    /\ button_state' = button_state) ]_vars

\* A hold timed to its end after main() had cancelled monitoring
C20_Witness ==
    /\ pc = "save" /\ mon_hist # None
    /\ mon_hist[1].outcome = BUTTON_FLIP /\ ~mon_hist[1].cas_ok

(***************************************************************************)
(* Button outcomes, LEDs, the panel protocol, rectangles, hashing          *)
(***************************************************************************)
\* C21: BUTTON_STATE is never Next or Flip when main() decides how to resume
\* or begins a display cycle; the swap at the end of a pass leaves CANCELLED,
\* and a Next or Flip it consumes was stored by the monitor spawned in that
\* pass after a started refresh (its compare-exchange from POLLING succeeded);
\* anything else ends the loop.
C21_OutcomeConsumedOnce ==
    /\ []( pc \in { "netfetch", "resume", "loop" } =>
              button_state = BUTTON_CANCELLED )
    /\ [][ (pc = "finish" /\ pc' \in { "loop", "save" }) =>
              /\ button_state' = BUTTON_CANCELLED
              /\ button_state \in { BUTTON_NEXT, BUTTON_FLIP } =>
                    /\ cycle.started
                    /\ mon_hist # None
                    /\ mon_hist[1].cas_ok
                    /\ mon_hist[1].outcome = button_state
                    /\ pc' = "loop"
              /\ button_state \notin { BUTTON_NEXT, BUTTON_FLIP } => pc' = "save" ]_vars

\* A button wake classified as a tap whose first cycle is about to begin
C21_Witness ==
    /\ pc = "loop" /\ first
    /\ hist.boot_flash = 1
    /\ button_state = BUTTON_CANCELLED

C28_HashEqualIffListsEqual ==
    [][ (pc = "resume" /\ pc' = "loop" /\ resuming) =>
           (data_matches' <=> (hist.saved # None /\ items' = hist.saved[1])) ]_vars

\* C29 as stated: the record saved by a fresh boot that fetched a three-item
\* catalog and ran one Horizontal full refresh has index 2, total 3,
\* Horizontal, next_slot 0, slot_items [0,1], the seed generated on this boot,
\* and the djb2 hash of the identifiers in the order of the fetched catalog.
C29_FreshBootRecordCatalogOrder ==
    [][ (pc = "save" /\ pc' = "sleep" /\ ~resuming /\ ~has_cached_data
           /\ total_items = 3 /\ orientation = Horizontal
           /\ last.kind = "final" /\ last.first /\ hist.started_any) =>
           /\ is_valid(rtc')
           /\ rtc'.index = 2 /\ rtc'.total_items = 3
           /\ get_orientation(rtc') = Horizontal
           /\ rtc'.next_slot = 0 /\ rtc'.slot_items = <<0, 1>>
           /\ hist.generated # None /\ rtc'.shuffle_seed = hist.generated[1]
           /\ sd_widget # NoFile
           /\ rtc'.data_hash = hash_data(sd_widget[1]) ]_vars

\* C29: as above, the hash being that of the identifiers in the order the
\* list has in memory, that is the fetched catalog permuted by shuffle_items
\* with the generated seed.
C29_FreshBootRecord ==
    [][ (pc = "save" /\ pc' = "sleep" /\ ~resuming /\ ~has_cached_data
           /\ total_items = 3 /\ orientation = Horizontal
           /\ last.kind = "final" /\ last.first /\ hist.started_any) =>
           /\ is_valid(rtc')
           /\ rtc'.index = 2 /\ rtc'.total_items = 3
           /\ get_orientation(rtc') = Horizontal
           /\ rtc'.next_slot = 0 /\ rtc'.slot_items = <<0, 1>>
           /\ hist.generated # None /\ rtc'.shuffle_seed = hist.generated[1]
           /\ sd_widget # NoFile
           /\ rtc'.data_hash =
                 hash_data(shuffle_items(sd_widget[1], hist.generated[1])) ]_vars

\* The record of such a boot, saved with a seed that permutes the catalog
C29_Witness ==
    /\ pc = "sleep" /\ is_valid(rtc)
    /\ rtc.index = 2 /\ rtc.total_items = 3 /\ rtc.slot_items = <<0, 1>>
    /\ rtc.next_slot = 0 /\ ~resuming /\ ~has_cached_data
    /\ hist.saved # None /\ sd_widget # NoFile
    /\ hist.saved[1] # sd_widget[1]
    /\ rtc.data_hash = hash_data(hist.saved[1])
    /\ ~hist.prev_changed

\* The rectangle and its buffer are as the partial-update path requires
RectOk(rect, buffer_len) ==
    /\ rect.x % 2 = 0 /\ rect.width % 2 = 0
    /\ rect.x + rect.width <= WIDTH
    /\ rect.y + rect.height <= HEIGHT
    /\ rect.width > 0 /\ rect.height > 0
    /\ buffer_len = (rect.width * rect.height) \div 2

\* The window and data sent describe a rectangle within the panel
WindowOk(sent) ==
    /\ sent.window.x_start % 2 = 0 /\ sent.window.x_end % 2 = 1
    /\ sent.window.x_start < sent.window.x_end /\ sent.window.x_end < WIDTH
    /\ sent.window.y_start <= sent.window.y_end /\ sent.window.y_end < HEIGHT
    /\ sent.data_len = ((sent.window.x_end - sent.window.x_start + 1)
                          * (sent.window.y_end - sent.window.y_start + 1)) \div 2

\* C26: the rectangle and buffer main() passes to partial_update_start are
\* aligned, within the panel, non-empty and of matching size; and for any
\* rectangle and buffer that are not, the call is refused or what it sends
\* is brought within the panel.
C26_PartialRectWithinBounds ==
    (call # None /\ call[1].op = "partial_update_start") =>
        /\ call[1].by_main => RectOk(call[1].rect, call[1].buffer_len)
        /\ \/ RectOk(call[1].rect, call[1].buffer_len)
           \/ call[1].result = None
           \/ WindowOk(call[1].result[1])

\* C27: Rect::new returns, for all arguments, x rounded down and width
\* rounded up to even, y and height as given, a width not below the one
\* asked for, and buffer_size is width * height / 2 of the result.
C27_RectNewRounds ==
    (call # None /\ call[1].op = "Rect::new") =>
        /\ call[1].result # None
        /\ LET r == call[1].result[1]
           IN  /\ r.x = call[1].x - (call[1].x % 2)
               /\ r.width = call[1].width + (call[1].width % 2)
               /\ r.y = call[1].y /\ r.height = call[1].height
               /\ r.width >= call[1].width
               /\ buffer_size(r) = (r.width * r.height) \div 2
               /\ (call[1].x = 401 /\ call[1].width = 401 /\ call[1].height = 480) =>
                     (r.x = 400 /\ r.width = 402 /\ buffer_size(r) = 96480)

\* C30: cleanup_stale(L) leaves in both orientation directories every file
\* named cache_filename(x) for an x in L that was there before the call.
C30_CleanupKeepsLiveEntries ==
    [][ (call' # None /\ call'[1].op = "cleanup_stale") =>
           \A o \in { Horizontal, Vertical } :
              \A i \in 1..Len(call'[1].valid_items) :
                 cache_filename(call'[1].valid_items[i]) \in img_dir[o] =>
                    cache_filename(call'[1].valid_items[i]) \in img_dir'[o] ]_vars

\* A cleanup that removed files and kept a live one in each directory
C30_Witness ==
    /\ call # None /\ call[1].op = "cleanup_stale"
    /\ call[1].removed >= 2
    /\ \A o \in { Horizontal, Vertical } :
          cache_filename(call[1].valid_items[1]) \in img_dir[o]

\* C25: from a started refresh until the poll of the busy line has found the
\* panel idle, main() makes no panel call and ends no pass; and the panel
\* calls of every pass are wake_up, then a start followed by the finish if the
\* start succeeded, then sleep.
C25_NoPanelCallWhileRefreshing ==
    /\ []( pc \in { "overlap", "refresh", "busy" } =>
              (cycle.started /\ ~cycle.idle) )
    /\ []( (pc = "finish" /\ cycle.started) => cycle.idle )
    /\ [][ (cycle.kind # "none" /\ cycle.started /\ ~cycle.idle
              /\ pc' \notin StuckPoints) =>
              /\ cycle'.kind = cycle.kind
              /\ cycle'.calls = cycle.calls
              /\ panel' = panel
              /\ last'.kind = "none" ]_vars
    /\ []( last.kind # "none" =>
              last.calls \in { <<"wake_up", "sleep">>,
                               <<"wake_up", "start_err", "sleep">>,
                               <<"wake_up", "start", "finish", "sleep">> } )

\* A pass that started a refresh, waited for the panel, finished and put it
\* to sleep, followed by a pass whose refresh is in progress
C25_Witness ==
    /\ pc = "busy" /\ cycle.started /\ ~cycle.idle
    /\ ~cycle.first
    /\ cycle.calls = <<"wake_up", "start">>

\* C23: deep sleep is entered only when every flash request has been taken
\* by the LED task and all its pulses have been made.
C23_FlashRunsBeforeSleep ==
    [][ (run.at # "deep_sleep" /\ run'.at = "deep_sleep") =>
           (led_green_flash = 0 /\ led_pulses = 0) ]_vars

\* C24: while main() awaits a catalog, image or prefetch request the red LED
\* blinks with the 500 ms interval, while it awaits the Wi-Fi association it
\* blinks with the 100 ms interval, and everywhere else, deep sleep included,
\* the blink is off.
C24_RedModeTracksActivity ==
    /\ run.at \in { "catalog_fetch", "image_fetch", "prefetch", "catalog_refresh" } =>
          (led_red_blink /\ led_red_interval = 500)
    /\ run.at = "assoc" => (led_red_blink /\ led_red_interval = 100)
    /\ run.at \notin { "catalog_fetch", "image_fetch", "prefetch",
                       "catalog_refresh", "assoc" } => ~led_red_blink

(***************************************************************************)
(* Claims C31 to C40                                                       *)
(***************************************************************************)
\* The hashes of all the identifiers of a list
HashesOf(list) == { path_hash(list[i]) : i \in 1..Len(list) }

\* C31: after a cleanup_stale(L) in which no deletion failed, the files left
\* whose names parse are those that were there with a hash among the hashes
\* of L, and the count returned is the number of files that disappeared.
C31_CleanupLeavesOnlyLive ==
    [][ (call' # None /\ call'[1].op = "cleanup_stale" /\ call'[1].failed = 0) =>
           /\ \A o \in { Horizontal, Vertical } :
                 { f \in img_dir'[o] : parse_cache_filename(f) # None }
                   = { f \in img_dir[o] :
                         /\ parse_cache_filename(f) # None
                         /\ parse_cache_filename(f)[1] \in HashesOf(call'[1].valid_items) }
           /\ call'[1].removed =
                 Cardinality(img_dir[Horizontal] \ img_dir'[Horizontal])
                 + Cardinality(img_dir[Vertical] \ img_dir'[Vertical]) ]_vars

\* C32: load_widget_data after store_widget_data(L) returns L, for every L of
\* at most 128 identifiers of at most 48 bytes.
C32_StoreLoadIdentity ==
    (call # None /\ call[1].op = "load_widget_data") =>
       call[1].loaded = Some(call[1].items)

\* C33: in one wake at most one connection to the edge service is opened.
C33_OneConnectionPerWake == run.conns <= 1

\* The number of positions of a list holding x
Count(list, x) == Cardinality({ k \in 1..Len(list) : list[k] = x })

\* C34: the list shuffled at the resume decision has the length and the
\* elements, each as many times, of the list before the shuffle; and when the
\* record is that of the previous wake and the catalog is the one that wake
\* shuffled, the shuffled list is the list that wake had in memory, item for
\* item.
C34_ShuffleDeterministicPermutation ==
    [][ (pc = "resume" /\ pc' = "loop") =>
           /\ Len(items') = Len(items)
           /\ \A k \in 1..Len(items) : Count(items', items[k]) = Count(items, items[k])
           /\ (resuming /\ hist.saved # None /\ hist.saved_catalog = Some(items)) =>
                 (items' = hist.saved[1] /\ shuffle_seed' = rtc.shuffle_seed) ]_vars

\* A resume on the catalog of the previous wake, whose shuffle moved items
C34_Witness ==
    /\ pc = "loop" /\ first /\ resuming /\ data_matches
    /\ hist.catalog # None /\ Len(items) >= 2
    /\ items # hist.catalog[1]
    /\ hash_data(items) = rtc.data_hash
    /\ shuffle_seed = rtc.shuffle_seed

\* C35: in Horizontal mode, over a catalog of two items or more, after a
\* refresh was started the two slots hold different items.
C35_SlotsHoldDifferentItems ==
    (cycle.kind # "none" /\ cycle.started /\ orientation = Horizontal
       /\ total_items >= 2) =>
        slot_items[1] # slot_items[2]

\* C36: for a request inside the panel the rectangle made by Rect::new covers
\* the columns asked for: it begins at x or before and ends at x + width or
\* after.
C36_AlignedRectCoversRequest ==
    (call # None /\ call[1].op = "Rect::new" /\ call[1].result # None
       /\ call[1].x + call[1].width <= WIDTH) =>
        LET r == call[1].result[1]
        IN  /\ r.x <= call[1].x
            /\ call[1].x + call[1].width <= r.x + r.width

\* C37: the boot-time check and the button monitor classify every press the
\* same way.
C37_ClassifiersAgree ==
    (call # None /\ call[1].op = "classify") => call[1].boot = call[1].monitor

\* C38: when main() stores POLLING and spawns a monitor, the monitor of every
\* earlier pass is over; and when main() saves the record BUTTON_STATE is not
\* POLLING, so that a monitor still there has been cancelled.
C38_OneMonitorLive ==
    /\ [][ (button_state' = BUTTON_POLLING /\ button_state # BUTTON_POLLING) =>
              (monitor = "dead" /\ monitor' = "poll") ]_vars
    /\ []( pc = "save" => button_state # BUTTON_POLLING )

\* A monitor spawned in a pass that is not the first of the wake
C38_Witness ==
    /\ pc = "overlap" /\ cycle.kind # "none" /\ ~cycle.first /\ cycle.started
    /\ monitor = "poll" /\ button_state = BUTTON_POLLING

\* C39: a slot whose has_image reports a hit is loaded without the network;
\* when the cached file cannot be shown the attempt starts no refresh and
\* the file stays as it is; an unreadable file stays unreadable through
\* every step while its item is in the catalog cleanup_stale is given, so
\* that an attempt on it is a hit that shows nothing
C39_UnreadableHitStays ==
    [][ /\ (call' # None /\ call'[1].op = "attempt") =>
              \A k \in 1..Len(call'[1].slots) :
                 LET slot == call'[1].slots[k]
                     o    == call'[1].orientation
                     file == cache_filename(slot.path)
                 IN  /\ slot.hit => ~slot.network
                     /\ (slot.hit /\ ~slot.shown) =>
                           /\ ~call'[1].started
                           /\ file \in img_dir'[o]
                           /\ file \in img_bad'[o]
                     /\ file \in img_bad[o] => (slot.hit /\ ~slot.shown)
        /\ \A o \in { Horizontal, Vertical } : \A file \in img_bad[o] :
              ( (call' # None /\ call'[1].op = "cleanup_stale") =>
                   \E i \in 1..Len(call'[1].valid_items) :
                      cache_filename(call'[1].valid_items[i]) = file )
              => (file \in img_dir'[o] /\ file \in img_bad'[o]) ]_vars

\* An attempt on a cached file that cannot be shown
C39_Witness ==
    /\ call # None /\ call[1].op = "attempt"
    /\ \E k \in 1..Len(call[1].slots) :
          /\ call[1].slots[k].hit /\ ~call[1].slots[k].shown
          /\ ~call[1].slots[k].network
          /\ cache_filename(call[1].slots[k].path) \in img_bad[call[1].orientation]
    /\ ~call[1].started

\* C40: with an orientation file on the SD card, the record found at deep
\* sleep holds the orientation the file holds; every write of the file is
\* read back by load_orientation as the orientation main() then uses; and a
\* start from an invalid record after deep sleep uses the orientation saved
\* at the entry to that sleep.
C40_RecordAndCardAgree ==
    /\ []( (pc = "sleep" /\ sd_orient # NoFile) =>
              /\ is_valid(rtc)
              /\ Some(get_orientation(rtc)) = load_orientation(sd_orient) )
    /\ [][ /\ sd_orient' # sd_orient =>
                 (pc' \notin StuckPoints => load_orientation(sd_orient') = Some(orientation'))
           /\ (pc = "sleep" /\ ~is_valid(rtc') /\ pc' \in { "netfetch", "resume" }) =>
                 orientation' = get_orientation(rtc) ]_vars

\* main() running Vertical from an invalid record: power was lost after a
\* hold had turned the frame
C40_Witness ==
    /\ pc \in { "netfetch", "resume" }
    /\ ~is_valid(rtc)
    /\ sd_orient = Some(Vertical)
    /\ orientation = Vertical
====
